---- MODULE Spec2Model ----
(***************************************************************************)
(* A model of pyflaredb: the B-tree index (indexing/btree.py), the row     *)
(* store (table.py), the query executor (sql/executor.py) and the two      *)
(* transaction managers (transaction.py, transaction/manager.py) and the   *)
(* version store (versioning.py).                                          *)
(*                                                                         *)
(* Python values are tagged records: None, IntVal(i) and StrVal(chars); a  *)
(* str is the sequence of its characters.  Python lists are sequences and  *)
(* the helpers At, Slice, ListInsert use Python's 0-based indices.  A      *)
(* method that mutates self is an operator that returns the object after   *)
(* the call; one that can raise returns a record with a `raised` field.    *)
(***************************************************************************)
EXTENDS Integers, Sequences, FiniteSets, TLC

\* ------------------------------------------------------------- bounds
\* BTreeIndex(order): a node holds at most 2*Order-1 keys.  The source's default,
\* which Table.create_index uses, is 100; the model runs the same code on
\* smaller nodes.
Order == 2
\* Keys of the stand-alone index range over 1..MaxKey (plus None).
MaxKey == 8
\* Number of BTreeIndex.insert calls explored after the preloaded ones.
MaxInserts == 4
\* Length of the ascending insert sequence 1..SeedLen that preloads a tree.
SeedLen == 8
\* Rows a table holds at most.
MaxRows == 4
\* Values of column f range over 1..MaxVal (plus None).
MaxVal == 2
\* Rows in one batch_insert call.
MaxBatch == 2
\* begin_transaction calls a manager receives.
MaxTx == 2
\* Changes the transactions of a manager hold in all.
MaxChanges == 1
\* Timestamps of versions range over 1..MaxTime.
MaxTime == 2
\* Versions a log holds at most.
MaxLog == 3

VARIABLES
    root,       \* BTreeIndex.root of a stand-alone index
    inserted,   \* history: the (key, row_id) pairs passed to insert, in call order
    preloaded,  \* history: how many of them preloaded the tree
    table,      \* the Table object: data, _indexes, _unique_indexes
    outcome,    \* the last call on the table or the executor, and what it returned
    impl,       \* which TransactionManager class is in use
    transactions, \* TransactionManager.transactions
    lock,       \* the thread that holds TransactionManager.lock
    pc,         \* where each thread is in its call on the manager
    issued,     \* history: the identifiers begin_transaction has returned, in order
    uuids,      \* how many identifiers uuid.uuid4() has handed out
    versions,   \* VersionStore.versions
    current_version, \* VersionStore.current_version
    returned,   \* the last call on the version store, and what it returned
    _query_cache, \* PyFlareDB._query_cache
    both        \* one TransactionManager of each class, given the same calls

btVars == <<root, inserted, preloaded>>
tblVars == <<table, outcome>>
txVars == <<impl, transactions, lock, pc, issued, uuids>>
vsVars == <<versions, current_version, returned>>
dbVars == <<_query_cache>>
bothVars == <<both>>
vars == <<root, inserted, preloaded, table, outcome, impl, transactions, lock, pc,
          issued, uuids, versions, current_version, returned, _query_cache, both>>

\* ------------------------------------------------------------- values
None == [tag |-> "none", n |-> 0, s |-> <<>>]
IntVal(i) == [tag |-> "int", n |-> i, s |-> <<>>]
StrVal(cs) == [tag |-> "str", n |-> 0, s |-> cs]
\* A float is a whole number or nan.
FloatVal(i) == [tag |-> "float", n |-> i, s |-> <<>>]
NaN == [tag |-> "float", n |-> 0, s |-> <<"n", "a", "n">>]
IsNaN(value) == value.tag = "float" /\ value.s # <<>>

\* Code points of the characters the model uses (Python compares str by code point).
Ord(c) ==
    CASE c = " " -> 32 [] c = "!" -> 33 [] c = "'" -> 39 [] c = "(" -> 40
      [] c = ")" -> 41 [] c = "*" -> 42 [] c = "+" -> 43 [] c = "-" -> 45
      [] c = "0" -> 48 [] c = "1" -> 49 [] c = "2" -> 50 [] c = "3" -> 51
      [] c = "4" -> 52 [] c = "5" -> 53 [] c = "6" -> 54 [] c = "7" -> 55
      [] c = "8" -> 56 [] c = "9" -> 57
      [] c = "<" -> 60 [] c = "=" -> 61 [] c = ">" -> 62
      [] c = "A" -> 65 [] c = "D" -> 68 [] c = "N" -> 78
      [] c = "a" -> 97 [] c = "d" -> 100 [] c = "f" -> 102 [] c = "g" -> 103
      [] c = "i" -> 105 [] c = "x" -> 120
      [] OTHER -> 63

RECURSIVE StrLess(_, _)
\* a < b for two str
StrLess(a, b) ==
    IF b = <<>> THEN FALSE
    ELSE IF a = <<>> THEN TRUE
    ELSE IF Head(a) # Head(b) THEN Ord(Head(a)) < Ord(Head(b))
    ELSE StrLess(Tail(a), Tail(b))

\* key1 < key2 for two values of the same type, neither None.
\* Every comparison with nan is false.
PyLess(key1, key2) ==
    IF key1.tag = "int" THEN key1.n < key2.n
    ELSE IF key1.tag = "float"
    THEN ~IsNaN(key1) /\ ~IsNaN(key2) /\ key1.n < key2.n
    ELSE StrLess(key1.s, key2.s)

\* ------------------------------------------------------------- Python lists
At(s, i) == s[i + 1]
Slice(s, a, b) == SubSeq(s, a + 1, b)
ListInsert(s, i, x) == SubSeq(s, 1, i) \o <<x>> \o SubSeq(s, i + 1, Len(s))
SetAt(s, i, x) == [s EXCEPT ![i + 1] = x]

\* dict: a function; `k in d`, d.get(k, default), d[k] = v.
HasKey(d, k) == k \in DOMAIN d
Get(d, k, default) == IF k \in DOMAIN d THEN d[k] ELSE default
Put(d, k, v) == [x \in (DOMAIN d) \cup {k} |-> IF x = k THEN v ELSE d[x]]

\* ------------------------------------------------------------- B-tree
Node(keys, values, children, is_leaf) ==
    [keys |-> keys, values |-> values, children |-> children, is_leaf |-> is_leaf]

_compare_keys(key1, key2) ==
    IF key1 = None \/ key2 = None
    THEN IF key1 = None /\ key2 = None THEN 0
         ELSE IF key1 = None THEN -1 ELSE 1
    ELSE IF key1.tag # key2.tag THEN 0
    ELSE IF PyLess(key1, key2) THEN -1
    ELSE IF PyLess(key2, key1) THEN 1
    ELSE 0

\* _split_child with the is_leaf flag of the new sibling given: the parent
\* after the split of the child, child being parent.children[child_index].
SplitChildAs(parent, child_index, child, median, new_is_leaf) ==
    Node(ListInsert(parent.keys, child_index, At(child.keys, median)),
         ListInsert(parent.values, child_index, At(child.values, median)),
         ListInsert(
             SetAt(parent.children, child_index,
                   Node(Slice(child.keys, 0, median),
                        Slice(child.values, 0, median),
                        IF ~child.is_leaf
                        THEN Slice(child.children, 0, median + 1)
                        ELSE child.children,
                        child.is_leaf)),
             child_index + 1,
             Node(Slice(child.keys, median + 1, Len(child.keys)),
                  Slice(child.values, median + 1, Len(child.values)),
                  IF ~child.is_leaf
                  THEN Slice(child.children, median + 1, Len(child.children))
                  ELSE <<>>,
                  new_is_leaf)),
         parent.is_leaf)

\* _split_child creating the new sibling as a leaf whatever the child is.
_split_child_new_leaf(parent, child_index) ==
    SplitChildAs(parent, child_index, At(parent.children, child_index), Order - 1, TRUE)

_split_child(parent, child_index) ==
    SplitChildAs(parent, child_index, At(parent.children, child_index), Order - 1,
                 At(parent.children, child_index).is_leaf)

RECURSIVE ScanDown(_, _, _)
\* while i >= 0 and _compare_keys(key, node.keys[i]) < 0: i -= 1
ScanDown(keys, key, i) ==
    IF i >= 0 /\ _compare_keys(key, At(keys, i)) < 0
    THEN ScanDown(keys, key, i - 1)
    ELSE i

RECURSIVE ScanUp(_, _, _)
\* while i < len(node.keys) and _compare_keys(key, node.keys[i]) > 0: i += 1
ScanUp(keys, key, i) ==
    IF i < Len(keys) /\ _compare_keys(key, At(keys, i)) > 0
    THEN ScanUp(keys, key, i + 1)
    ELSE i

RECURSIVE _insert_non_full(_, _, _)
_insert_non_full(node, key, row_id) ==
    LET Leaf(i) ==
            IF i > 0 /\ _compare_keys(key, At(node.keys, i - 1)) = 0
            THEN [node EXCEPT !.values =
                      SetAt(node.values, i - 1, Append(At(node.values, i - 1), row_id))]
            ELSE [node EXCEPT !.keys = ListInsert(node.keys, i, key),
                              !.values = ListInsert(node.values, i, <<row_id>>)]
        Descend(nd, j) ==
            [nd EXCEPT !.children =
                SetAt(nd.children, j, _insert_non_full(At(nd.children, j), key, row_id))]
        AfterSplit(split, i) ==
            Descend(split, IF _compare_keys(key, At(split.keys, i)) > 0 THEN i + 1 ELSE i)
        Inner(i) ==
            IF Len(At(node.children, i).keys) = (2 * Order) - 1
            THEN AfterSplit(_split_child(node, i), i)
            ELSE Descend(node, i)
        At_(i) == IF node.is_leaf THEN Leaf(i) ELSE Inner(i)
    IN  At_(ScanDown(node.keys, key, Len(node.keys) - 1) + 1)

\* insert without the test for a full root.
insert_unsplit(rt, key, row_id) == _insert_non_full(rt, key, row_id)

\* BTreeIndex.insert: the root after the call.
insert(rt, key, row_id) ==
    _insert_non_full(
        IF Len(rt.keys) = (2 * Order) - 1
        THEN _split_child(Node(<<>>, <<>>, <<rt>>, FALSE), 0)
        ELSE rt,
        key, row_id)

RECURSIVE _search_node(_, _)
_search_node(node, key) ==
    LET Found(i) ==
            IF i < Len(node.keys) /\ _compare_keys(key, At(node.keys, i)) = 0
            THEN At(node.values, i)
            ELSE IF node.is_leaf THEN <<>>
            ELSE _search_node(At(node.children, i), key)
    IN  Found(ScanUp(node.keys, key, 0))

\* BTreeIndex.search
search(rt, key) == _search_node(rt, key)

RECURSIVE RangeLeafLoopStrict(_, _, _, _)
\* The leaf loop of _range_search_node with a strict upper bound.
RangeLeafLoopStrict(node, end_key, i, result) ==
    IF i < Len(node.keys) /\ _compare_keys(At(node.keys, i), end_key) < 0
    THEN RangeLeafLoopStrict(node, end_key, i + 1, result \o At(node.values, i))
    ELSE result

RECURSIVE RangeLeafLoop(_, _, _, _)
\* The leaf loop of _range_search_node.
RangeLeafLoop(node, end_key, i, result) ==
    IF i < Len(node.keys) /\ _compare_keys(At(node.keys, i), end_key) <= 0
    THEN RangeLeafLoop(node, end_key, i + 1, result \o At(node.values, i))
    ELSE result

RECURSIVE _range_search_node(_, _, _, _)
RECURSIVE RangeInnerLoop(_, _, _, _, _)
\* The loop of _range_search_node over the keys of an internal node.
RangeInnerLoop(node, start_key, end_key, i, result) ==
    IF i < Len(node.keys) /\ _compare_keys(At(node.keys, i), end_key) <= 0
    THEN RangeInnerLoop(node, start_key, end_key, i + 1,
             IF i + 1 < Len(node.children)
             THEN _range_search_node(At(node.children, i + 1), start_key, end_key,
                                     result \o At(node.values, i))
             ELSE result \o At(node.values, i))
    ELSE result

_range_search_node(node, start_key, end_key, result) ==
    LET From(i) ==
            IF node.is_leaf
            THEN RangeLeafLoop(node, end_key, i, result)
            ELSE RangeInnerLoop(node, start_key, end_key, i,
                     IF i < Len(node.keys)
                     THEN _range_search_node(At(node.children, i),
                                             start_key, end_key, result)
                     ELSE result)
    IN  From(ScanUp(node.keys, start_key, 0))

\* BTreeIndex.range_search
range_search(rt, start_key, end_key) ==
    _range_search_node(rt, start_key, end_key, <<>>)

\* ------------------------------------------------------------- str and int
Digits == <<"0", "1", "2", "3", "4", "5", "6", "7", "8", "9">>
IsDigit(c) == \E d \in 1..10 : Digits[d] = c
DigitValue(c) == (CHOOSE d \in 1..10 : Digits[d] = c) - 1

RECURSIVE LStrip(_)
LStrip(cs) == IF cs # <<>> /\ Head(cs) = " " THEN LStrip(Tail(cs)) ELSE cs
RECURSIVE RStrip(_)
RStrip(cs) ==
    IF cs # <<>> /\ cs[Len(cs)] = " " THEN RStrip(SubSeq(cs, 1, Len(cs) - 1)) ELSE cs
\* cs.strip()
Strip(cs) == RStrip(LStrip(cs))

RECURSIVE DigitsValue(_, _)
DigitsValue(cs, acc) ==
    IF cs = <<>> THEN acc
    ELSE DigitsValue(Tail(cs), (10 * acc) + DigitValue(Head(cs)))

\* int(str): blanks stripped, an optional sign, then decimal digits; anything
\* else raises ValueError.
ParseInt(cs) ==
    LET Unsigned(neg, body) ==
            IF body # <<>> /\ \A k \in 1..Len(body) : IsDigit(body[k])
            THEN [raised |-> FALSE,
                  value |-> IF neg THEN 0 - DigitsValue(body, 0)
                            ELSE DigitsValue(body, 0)]
            ELSE [raised |-> TRUE, value |-> 0]
        Signed(t) ==
            Unsigned(t # <<>> /\ Head(t) = "-",
                     IF t # <<>> /\ (Head(t) = "-" \/ Head(t) = "+") THEN Tail(t) ELSE t)
    IN  Signed(Strip(cs))

RECURSIVE NatToStr(_)
NatToStr(n) == IF n < 10 THEN <<Digits[n + 1]>>
               ELSE NatToStr(n \div 10) \o <<Digits[(n % 10) + 1]>>
\* str(int)
IntToStr(n) == IF n < 0 THEN <<"-">> \o NatToStr(0 - n) ELSE NatToStr(n)

\* int(value) for a value that is not None.
PyInt(value) ==
    LET Parsed(p) == [raised |-> p.raised, value |-> IntVal(p.value)]
    IN  IF value.tag = "int" THEN [raised |-> FALSE, value |-> value]
        ELSE IF value.tag = "float"
        THEN [raised |-> IsNaN(value), value |-> IntVal(value.n)]
        ELSE Parsed(ParseInt(value.s))

\* float(value) for a value that is not None; of the str forms float accepts,
\* "nan" and the whole numbers are read.
PyFloat(value) ==
    LET Parsed(p) == [raised |-> p.raised, value |-> FloatVal(p.value)]
    IN  IF value.tag = "float" THEN [raised |-> FALSE, value |-> value]
        ELSE IF value.tag = "int" THEN [raised |-> FALSE, value |-> FloatVal(value.n)]
        ELSE IF Strip(value.s) = <<"n", "a", "n">> THEN [raised |-> FALSE, value |-> NaN]
        ELSE Parsed(ParseInt(value.s))

\* str(value) for a value that is not None.
PyStr(value) ==
    IF value.tag = "int" THEN StrVal(IntToStr(value.n))
    ELSE IF value.tag = "float"
    THEN IF IsNaN(value) THEN StrVal(value.s)
         ELSE StrVal(IntToStr(value.n) \o <<".", "0">>)
    ELSE value

\* ------------------------------------------------------------- Table
Column(name, data_type, nullable, unique, primary_key, default) ==
    [name |-> name, data_type |-> data_type, nullable |-> nullable,
     unique |-> unique, primary_key |-> primary_key, default |-> default]

\* The str "id", "f", "integer", "users", "x" and a name of no column.
S_id == <<"i", "d">>
S_f == <<"f">>
S_integer == <<"i", "n", "t", "e", "g", "e", "r">>
S_float == <<"f", "l", "o", "a", "t">>
S_users == <<"u", "s", "e", "r", "s">>
S_x == <<"x">>
S_absent == <<"g">>

\* The table every run creates: users(id integer primary key, f integer).
Columns ==
    << Column(S_id, S_integer, FALSE, TRUE, TRUE, None),
       Column(S_f, S_integer, TRUE, FALSE, FALSE, None) >>

\* Table.__init__.  _unique_indexes is a defaultdict(dict): a column it has no
\* entry for reads as the empty dict, so it is kept as a function on the unique
\* columns, each mapped to its value -> row id dict.
NewTable ==
    [name |-> S_users,
     columns |-> Columns,
     data |-> <<>>,
     _unique_indexes |->
         [c \in {Columns[k].name : k \in {j \in 1..Len(Columns) : Columns[j].unique}}
             |-> <<>>],
     _indexes |-> <<>>]

\* A table whose column f holds floats: users(id integer primary key, f float).
FloatColumns ==
    << Column(S_id, S_integer, FALSE, TRUE, TRUE, None),
       Column(S_f, S_float, TRUE, FALSE, FALSE, None) >>
NewFloatTable == [NewTable EXCEPT !.columns = FloatColumns]

\* The type conversion of batch_insert, for a value that is not None.
Convert(column, value) ==
    IF column.data_type = S_integer THEN PyInt(value)
    ELSE IF column.data_type = S_float THEN PyFloat(value)
    ELSE [raised |-> FALSE, value |-> PyStr(value)]

RECURSIVE ValidateColumns(_, _, _, _, _)
\* batch_insert's loop over the columns, for one row, from column c on: the
\* converted row and the unique values seen so far in the batch, or raised.
ValidateColumns(tbl, row, c, converted_row, unique_values) ==
    LET Raise == [raised |-> TRUE, row |-> converted_row,
                  unique_values |-> unique_values]
        Checked(column, conv, seen) ==
            IF ~column.nullable /\ ~HasKey(row, column.name) /\ column.default = None
            THEN Raise
            ELSE IF conv.raised THEN Raise
            ELSE IF column.unique /\ conv.value # None
                    /\ (conv.value \in seen
                        \/ HasKey(tbl._unique_indexes[column.name], conv.value))
            THEN Raise
            ELSE ValidateColumns(tbl, row, c + 1,
                     Put(converted_row, column.name, conv.value),
                     IF column.unique /\ conv.value # None
                     THEN Put(unique_values, column.name, seen \cup {conv.value})
                     ELSE unique_values)
        Valued(column, value) ==
            Checked(column,
                    IF value # None THEN Convert(column, value)
                    ELSE [raised |-> FALSE, value |-> value],
                    Get(unique_values, column.name, {}))
        Col(column) == Valued(column, Get(row, column.name, column.default))
    IN  IF c > Len(tbl.columns)
        THEN [raised |-> FALSE, row |-> converted_row, unique_values |-> unique_values]
        ELSE Col(tbl.columns[c])

RECURSIVE ValidateRows(_, _, _, _, _)
\* batch_insert's validation loop over the rows, from position k on.
ValidateRows(tbl, rows, k, validated_rows, unique_values) ==
    LET Row_(v) ==
            IF v.raised
            THEN [raised |-> TRUE, at |-> k, validated_rows |-> validated_rows]
            ELSE ValidateRows(tbl, rows, k + 1,
                              Append(validated_rows, v.row), v.unique_values)
    IN  IF k > Len(rows)
        THEN [raised |-> FALSE, at |-> 0, validated_rows |-> validated_rows]
        ELSE Row_(ValidateColumns(tbl, rows[k], 1, <<>>, unique_values))

\* One round of the apply loop that leaves the unique map as it is.
ApplyRow_no_unique(tbl, row) ==
    [tbl EXCEPT
        !._indexes = [c \in DOMAIN tbl._indexes |->
                         IF HasKey(row, c)
                         THEN insert(tbl._indexes[c], row[c], Len(tbl.data))
                         ELSE tbl._indexes[c]],
        !.data = Append(tbl.data, row)]

\* One round of batch_insert's apply loop: the row gets row id len(data).
ApplyRow(tbl, row) ==
    [tbl EXCEPT
        !._indexes = [c \in DOMAIN tbl._indexes |->
                         IF HasKey(row, c)
                         THEN insert(tbl._indexes[c], row[c], Len(tbl.data))
                         ELSE tbl._indexes[c]],
        !._unique_indexes = [c \in DOMAIN tbl._unique_indexes |->
                                IF Get(row, c, None) # None
                                THEN Put(tbl._unique_indexes[c], row[c], Len(tbl.data))
                                ELSE tbl._unique_indexes[c]],
        !.data = Append(tbl.data, row)]

RECURSIVE ApplyRows(_, _)
\* batch_insert's apply loop.
ApplyRows(tbl, validated_rows) ==
    IF validated_rows = <<>> THEN tbl
    ELSE ApplyRows(ApplyRow(tbl, Head(validated_rows)), Tail(validated_rows))

RECURSIVE batch_insert_eager(_, _)
\* batch_insert storing each row as soon as it has validated it.
batch_insert_eager(tbl, rows) ==
    LET Rest(r) == [r EXCEPT !.at = IF r.raised THEN r.at + 1 ELSE 0]
        Row_(v) ==
            IF v.raised THEN [raised |-> TRUE, at |-> 1, table |-> tbl]
            ELSE Rest(batch_insert_eager(ApplyRow(tbl, v.row), Tail(rows)))
    IN  IF rows = <<>> THEN [raised |-> FALSE, at |-> 0, table |-> tbl]
        ELSE Row_(ValidateColumns(tbl, Head(rows), 1, <<>>, <<>>))

\* Table.batch_insert: whether it raised ValueError (and at which row of the
\* batch), and the table after the call.
batch_insert(tbl, rows) ==
    LET Validated(v) ==
            IF v.raised THEN [raised |-> TRUE, at |-> v.at, table |-> tbl]
            ELSE [raised |-> FALSE, at |-> 0,
                  table |-> ApplyRows(tbl, v.validated_rows)]
    IN  Validated(ValidateRows(tbl, rows, 1, <<>>, <<>>))

\* Table.insert
table_insert(tbl, row) == batch_insert(tbl, <<row>>)

RECURSIVE BuildIndex_skip_null(_, _, _, _)
\* create_index's loop leaving out the rows that hold None in the column.
BuildIndex_skip_null(index, rows, column_name, row_id) ==
    IF row_id >= Len(rows) THEN index
    ELSE BuildIndex_skip_null(IF Get(At(rows, row_id), column_name, None) # None
                              THEN insert(index, At(rows, row_id)[column_name], row_id)
                              ELSE index,
                              rows, column_name, row_id + 1)

RECURSIVE BuildIndex(_, _, _, _)
\* create_index's loop over the existing rows, from row id row_id on.
BuildIndex(index, rows, column_name, row_id) ==
    IF row_id >= Len(rows) THEN index
    ELSE BuildIndex(IF HasKey(At(rows, row_id), column_name)
                    THEN insert(index, At(rows, row_id)[column_name], row_id)
                    ELSE index,
                    rows, column_name, row_id + 1)

\* Table.create_index
create_index(tbl, column_name) ==
    IF column_name \notin {tbl.columns[c].name : c \in 1..Len(tbl.columns)}
    THEN [raised |-> TRUE, table |-> tbl]
    ELSE [raised |-> FALSE,
          table |-> [tbl EXCEPT !._indexes =
              Put(tbl._indexes, column_name,
                  BuildIndex(Node(<<>>, <<>>, <<>>, TRUE), tbl.data, column_name, 0))]]

\* [self.data[row_id] for row_id in row_ids]
RowsOf(tbl, row_ids) == [k \in 1..Len(row_ids) |-> At(tbl.data, row_ids[k])]

\* Table.find_by_index, for a column that has an index.
find_by_index(tbl, column_name, value) ==
    RowsOf(tbl, search(tbl._indexes[column_name], value))

\* Table.range_search, for a column that has an index.
table_range_search(tbl, column_name, start_value, end_value) ==
    RowsOf(tbl, range_search(tbl._indexes[column_name], start_value, end_value))

\* ------------------------------------------------------------- str search
RECURSIVE Find(_, _, _)
\* The 1-based position of the first occurrence of pat in cs at or after i;
\* 0 when there is none.
Find(cs, pat, i) ==
    IF i + Len(pat) - 1 > Len(cs) THEN 0
    ELSE IF SubSeq(cs, i, i + Len(pat) - 1) = pat THEN i
    ELSE Find(cs, pat, i + 1)

\* pat in cs
Contains(cs, pat) == Find(cs, pat, 1) # 0

RECURSIVE Split(_, _)
\* cs.split(sep)
Split(cs, sep) ==
    LET Cut(i) ==
            IF i = 0 THEN <<cs>>
            ELSE <<SubSeq(cs, 1, i - 1)>>
                 \o Split(SubSeq(cs, i + Len(sep), Len(cs)), sep)
    IN  Cut(Find(cs, sep, 1))

LowerCase == <<"a", "b", "c", "d", "e", "f", "g", "h", "i", "j", "k", "l", "m",
              "n", "o", "p", "q", "r", "s", "t", "u", "v", "w", "x", "y", "z">>
UpperCase == <<"A", "B", "C", "D", "E", "F", "G", "H", "I", "J", "K", "L", "M",
              "N", "O", "P", "Q", "R", "S", "T", "U", "V", "W", "X", "Y", "Z">>
LowerChar(c) ==
    IF \E k \in 1..26 : UpperCase[k] = c
    THEN LowerCase[CHOOSE k \in 1..26 : UpperCase[k] = c] ELSE c
UpperChar(c) ==
    IF \E k \in 1..26 : LowerCase[k] = c
    THEN UpperCase[CHOOSE k \in 1..26 : LowerCase[k] = c] ELSE c
\* cs.lower()
Lower(cs) == [k \in 1..Len(cs) |-> LowerChar(cs[k])]
\* cs.upper()
Upper(cs) == [k \in 1..Len(cs) |-> UpperChar(cs[k])]

\* cs.find(pat, start): 0-based, -1 when pat is not found; a negative start
\* counts from the end.
PyFind(cs, pat, start) ==
    LET From(b) == IF b > Len(cs) THEN 0 - 1 ELSE Find(cs, pat, b + 1) - 1
    IN  From(IF start >= 0 THEN start
             ELSE IF Len(cs) + start < 0 THEN 0 ELSE Len(cs) + start)

\* cs[a:b]: negative bounds count from the end, bounds outside cs are clipped.
PySlice(cs, a, b) ==
    LET Clip(i) == IF i < 0 THEN (IF Len(cs) + i < 0 THEN 0 ELSE Len(cs) + i)
                   ELSE IF i > Len(cs) THEN Len(cs) ELSE i
    IN  SubSeq(cs, Clip(a) + 1, Clip(b))

RECURSIVE Words(_)
\* cs.split(): the runs of non-blank characters.
Words(cs) ==
    LET t == LStrip(cs)
        End(e) == IF e = 0 THEN <<t>>
                  ELSE <<SubSeq(t, 1, e - 1)>> \o Words(SubSeq(t, e, Len(t)))
    IN  IF t = <<>> THEN <<>> ELSE End(Find(t, <<" ">>, 1))

RECURSIVE Join(_, _)
\* sep.join(parts)
Join(sep, parts) ==
    IF parts = <<>> THEN <<>>
    ELSE IF Len(parts) = 1 THEN parts[1]
    ELSE parts[1] \o sep \o Join(sep, Tail(parts))

RECURSIVE Remove(_, _)
\* cs.replace(pat, "")
Remove(cs, pat) ==
    LET Cut(i) == IF i = 0 THEN cs
                  ELSE SubSeq(cs, 1, i - 1)
                       \o Remove(SubSeq(cs, i + Len(pat), Len(cs)), pat)
    IN  Cut(Find(cs, pat, 1))

\* cs.startswith(pat)
StartsWith(cs, pat) == Len(cs) >= Len(pat) /\ SubSeq(cs, 1, Len(pat)) = pat

\* ------------------------------------------------------------- QueryExecutor
S_star == <<"*">>
S_count_star == <<"c", "o", "u", "n", "t", "(", "*", ")">>
S_count_paren == <<"c", "o", "u", "n", "t", "(">>
S_count == <<"c", "o", "u", "n", "t">>
S_AND == <<" ", "A", "N", "D", " ">>
OP_ge == <<">", "=">>
OP_le == <<"<", "=">>
OP_gt == <<">">>
OP_lt == <<"<">>
OP_eq == <<"=">>
OP_ne == <<"!", "=">>
\* The order in which _parse_where_clause looks for the operators.
OperatorOrder == <<OP_ge, OP_le, OP_gt, OP_lt, OP_eq, OP_ne>>

\* A statement with no WHERE has where_clause None, one with no ORDER BY has
\* order_by <<>>, one with no LIMIT has limit None.
SelectStatement(table_name, columns, where_clause, order_by, limit) ==
    [table_name |-> table_name, columns |-> columns, where_clause |-> where_clause,
     order_by |-> order_by, limit |-> limit]

RECURSIVE ParseSubclause(_, _)
\* The loop of _parse_where_clause over the operators, for one subclause, from
\* the k-th operator on: the condition of the first operator found in it.
ParseSubclause(subclause, k) ==
    LET Unpack(op, parts) ==
            IF Len(parts) # 2 THEN [raised |-> TRUE, conditions |-> <<>>]
            ELSE [raised |-> FALSE,
                  conditions |-> <<[field |-> Strip(parts[1]), op |-> op,
                                    value |-> Strip(parts[2])]>>]
        Try(op) ==
            IF Contains(subclause, op) THEN Unpack(op, Split(subclause, op))
            ELSE ParseSubclause(subclause, k + 1)
    IN  IF k > Len(OperatorOrder) THEN [raised |-> TRUE, conditions |-> <<>>]
        ELSE Try(OperatorOrder[k])

RECURSIVE ParseSubclauses(_, _)
\* The loop of _parse_where_clause over the subclauses.
ParseSubclauses(subclauses, conditions) ==
    LET Parsed(c) ==
            IF c.raised THEN c
            ELSE ParseSubclauses(Tail(subclauses), conditions \o c.conditions)
    IN  IF subclauses = <<>> THEN [raised |-> FALSE, conditions |-> conditions]
        ELSE Parsed(ParseSubclause(Strip(Head(subclauses)), 1))

\* QueryExecutor._parse_where_clause: the (field, operator, value) conditions,
\* or raised (ValueError).
_parse_where_clause(where_clause) ==
    ParseSubclauses(Split(where_clause, S_AND), <<>>)

\* _comparison_ops[op](a, b) for two values of the same type; every ordering
\* and equality with nan is false.
CompareOp(op, a, b) ==
    LET Ordered == ~IsNaN(a) /\ ~IsNaN(b)
    IN  CASE op = OP_gt -> PyLess(b, a)
          [] op = OP_lt -> PyLess(a, b)
          [] op = OP_ge -> Ordered /\ ~PyLess(a, b)
          [] op = OP_le -> Ordered /\ ~PyLess(b, a)
          [] op = OP_eq -> Ordered /\ a = b
          [] OTHER -> ~Ordered \/ a # b

\* One pass of the loop of _matches_all_conditions: FALSE where the loop
\* returns False, TRUE where it goes on to the next condition.
MatchesCondition(row, cond) ==
    LET Compared(row_value, conv) ==
            IF conv.raised THEN FALSE ELSE CompareOp(cond.op, row_value, conv.value)
        Valued(row_value) ==
            IF row_value = None THEN FALSE
            ELSE Compared(row_value,
                          IF row_value.tag = "int" THEN PyInt(StrVal(cond.value))
                          ELSE IF row_value.tag = "float" THEN PyFloat(StrVal(cond.value))
                          ELSE [raised |-> FALSE, value |-> StrVal(cond.value)])
    IN  Valued(Get(row, cond.field, None))

\* _matches_all_conditions returning True as soon as one condition holds.
_matches_any_condition(row, conditions) ==
    conditions = <<>> \/ \E k \in 1..Len(conditions) : MatchesCondition(row, conditions[k])

RECURSIVE _matches_all_conditions(_, _)
\* QueryExecutor._matches_all_conditions
_matches_all_conditions(row, conditions) ==
    IF conditions = <<>> THEN TRUE
    ELSE IF ~MatchesCondition(row, Head(conditions)) THEN FALSE
    ELSE _matches_all_conditions(row, Tail(conditions))

\* The row a select returns for a stored row: a copy for "*", else the listed
\* columns, a column containing "count(" being the number of rows produced so far.
ProjectRow(row, columns, produced) ==
    IF \E k \in 1..Len(columns) : columns[k] = S_star THEN row
    ELSE [c \in {columns[k] : k \in 1..Len(columns)} |->
             IF Contains(Lower(c), S_count_paren) THEN IntVal(produced)
             ELSE Get(row, c, None)]

RECURSIVE ProjectRows(_, _, _)
\* The projection loop of _table_scan and _process_results.
ProjectRows(rows, columns, results) ==
    IF rows = <<>> THEN results
    ELSE ProjectRows(Tail(rows), columns,
                     Append(results, ProjectRow(Head(rows), columns, Len(results))))

\* (a is None, a) < (b is None, b), the sort key of an ORDER BY clause.
SortKeyLess(a, b) ==
    IF (a = None) # (b = None) THEN b = None
    ELSE IF a = None THEN FALSE
    ELSE PyLess(a, b)

RECURSIVE SortedInsert(_, _, _, _)
\* list.sort(key, reverse) is stable in both directions: x goes before the
\* first element that sorts strictly after it.
SortedInsert(sorted, x, column, reverse) ==
    LET Place(kx, ke) ==
            IF (IF reverse THEN SortKeyLess(ke, kx) ELSE SortKeyLess(kx, ke))
            THEN <<x>> \o sorted
            ELSE <<Head(sorted)>> \o SortedInsert(Tail(sorted), x, column, reverse)
    IN  IF sorted = <<>> THEN <<x>>
        ELSE Place(Get(x, column, None), Get(Head(sorted), column, None))

RECURSIVE SortRows(_, _, _, _)
SortRows(rows, sorted, column, reverse) ==
    IF rows = <<>> THEN sorted
    ELSE SortRows(Tail(rows), SortedInsert(sorted, Head(rows), column, reverse),
                  column, reverse)

RECURSIVE OrderBy_reversing(_, _)
\* The ORDER BY loop with a DESC clause sorted ascending and the list reversed.
OrderBy_reversing(results, order_by) ==
    LET Reversed(rows) == [k \in 1..Len(rows) |-> rows[Len(rows) + 1 - k]]
        Sorted(rows, clause) ==
            IF clause.direction = "DESC" THEN Reversed(rows) ELSE rows
    IN  IF order_by = <<>> THEN results
        ELSE OrderBy_reversing(Sorted(SortRows(results, <<>>, Head(order_by).column,
                                               FALSE),
                                      Head(order_by)),
                               Tail(order_by))

RECURSIVE OrderBy(_, _)
\* The ORDER BY loop of _process_results: one sort per clause, in clause order.
OrderBy(results, order_by) ==
    IF order_by = <<>> THEN results
    ELSE OrderBy(SortRows(results, <<>>, Head(order_by).column,
                          Head(order_by).direction = "DESC"),
                 Tail(order_by))

\* results[:limit]
SliceTo(results, limit) ==
    LET To(stop) ==
            Slice(results, 0, IF stop < 0 THEN 0
                              ELSE IF stop > Len(results) THEN Len(results) ELSE stop)
    IN  To(IF limit >= 0 THEN limit ELSE Len(results) + limit)

\* QueryExecutor._process_results
_process_results(rows, stmt) ==
    LET Limited(ordered) ==
            IF stmt.limit # None THEN SliceTo(ordered, stmt.limit.n) ELSE ordered
    IN  Limited(OrderBy(ProjectRows(rows, stmt.columns, <<>>), stmt.order_by))

RECURSIVE FilterRows(_, _)
\* [row for row in rows if self._matches_all_conditions(row, conditions)]
FilterRows(rows, conditions) ==
    IF rows = <<>> THEN <<>>
    ELSE (IF _matches_all_conditions(Head(rows), conditions)
          THEN <<Head(rows)>> ELSE <<>>)
         \o FilterRows(Tail(rows), conditions)

\* `if stmt.where_clause:`
HasWhere(stmt) == stmt.where_clause # None /\ stmt.where_clause.s # <<>>

\* QueryExecutor._table_scan
_table_scan(tbl, stmt) ==
    LET Scan(parsed) ==
            IF parsed.raised THEN <<>>
            ELSE _process_results(
                     ProjectRows(FilterRows(tbl.data, parsed.conditions),
                                 stmt.columns, <<>>),
                     stmt)
    IN  Scan(IF HasWhere(stmt) THEN _parse_where_clause(stmt.where_clause.s)
             ELSE [raised |-> FALSE, conditions |-> <<>>])

\* The rows the index of cond.field yields for the condition, the literal
\* already converted to the column's type.
IndexLookup(tbl, cond, value) ==
    IF cond.op = OP_eq THEN find_by_index(tbl, cond.field, value)
    ELSE IF cond.op \in {OP_gt, OP_ge}
    THEN table_range_search(tbl, cond.field, value, None)
    ELSE IF cond.op \in {OP_lt, OP_le}
    THEN table_range_search(tbl, cond.field, None, value)
    ELSE tbl.data

\* next((col for col in table.columns if col.name == field), None)
ColumnNamed(tbl, field) ==
    LET First(cols) ==
            IF cols = {} THEN None
            ELSE tbl.columns[CHOOSE c \in cols : \A d \in cols : c <= d]
    IN  First({c \in 1..Len(tbl.columns) : tbl.columns[c].name = field})

RECURSIVE IndexPath(_, _, _, _)
\* The loop of _execute_select over the conditions, from the k-th on: the
\* result of the first condition on an indexed column whose literal converts,
\* if there is one.
IndexPath(tbl, stmt, conditions, k) ==
    LET Converted(cond, conv) ==
            IF conv.raised THEN IndexPath(tbl, stmt, conditions, k + 1)
            ELSE [returned |-> TRUE,
                  rows |-> _process_results(
                               FilterRows(IndexLookup(tbl, cond, conv.value),
                                          conditions),
                               stmt)]
        Typed(cond, column) ==
            Converted(cond,
                      IF column # None /\ column.data_type = S_integer
                      THEN PyInt(StrVal(cond.value))
                      ELSE IF column # None /\ column.data_type = S_float
                      THEN PyFloat(StrVal(cond.value))
                      ELSE [raised |-> FALSE, value |-> StrVal(cond.value)])
        Cond(cond) ==
            IF ~HasKey(tbl._indexes, cond.field)
            THEN IndexPath(tbl, stmt, conditions, k + 1)
            ELSE Typed(cond, ColumnNamed(tbl, cond.field))
    IN  IF k > Len(conditions) THEN [returned |-> FALSE, rows |-> <<>>]
        ELSE Cond(conditions[k])

\* _execute_select letting the ValueError of _parse_where_clause reach the caller.
_execute_select_strict(tables, stmt) ==
    IF ~HasKey(tables, stmt.table_name) THEN [raised |-> TRUE, rows |-> <<>>]
    ELSE IF HasWhere(stmt) /\ _parse_where_clause(stmt.where_clause.s).raised
    THEN [raised |-> TRUE, rows |-> <<>>]
    ELSE [raised |-> FALSE, rows |-> _table_scan(tables[stmt.table_name], stmt)]

\* QueryExecutor._execute_select on the executor's tables: raised (ValueError)
\* or the rows returned.
_execute_select(tables, stmt) ==
    LET Indexed(tbl, viaIndex) ==
            IF viaIndex.returned THEN [raised |-> FALSE, rows |-> viaIndex.rows]
            ELSE [raised |-> FALSE, rows |-> _table_scan(tbl, stmt)]
        Parsed(tbl, parsed) ==
            Indexed(tbl, IF parsed.raised THEN [returned |-> FALSE, rows |-> <<>>]
                         ELSE IndexPath(tbl, stmt, parsed.conditions, 1))
        On(tbl) ==
            IF Len(stmt.columns) = 1 /\ Lower(stmt.columns[1]) = S_count_star
            THEN [raised |-> FALSE,
                  rows |-> <<[c \in {S_count} |-> IntVal(Len(tbl.data))]>>]
            ELSE Parsed(tbl, IF HasWhere(stmt)
                             THEN _parse_where_clause(stmt.where_clause.s)
                             ELSE [raised |-> TRUE, conditions |-> <<>>])
    IN  IF ~HasKey(tables, stmt.table_name) THEN [raised |-> TRUE, rows |-> <<>>]
        ELSE On(tables[stmt.table_name])

\* ------------------------------------------------------------- transactions
\* TransactionState (the members; the two classes differ in the values only).
ACTIVE == "ACTIVE"
COMMITTED == "COMMITTED"
ROLLED_BACK == "ROLLED_BACK"

\* Transaction(tx_id).  start_time (transaction.py) and timestamp
\* (transaction/manager.py) are written once and never read: they are left out.
Transaction(tx_id) ==
    [id |-> tx_id, state |-> ACTIVE, locks |-> {}, changes |-> <<>>]

\* The two TransactionManager classes.
UUID_MANAGER == "transaction.py"
COUNTER_MANAGER == "transaction/manager.py"
Managers == {UUID_MANAGER, COUNTER_MANAGER}

\* The threads that call a manager, and the holder of a free lock.
Threads == {"t1", "t2"}
Nobody == "nobody"

\* str(uuid.uuid4()), for the n-th identifier the generator hands out: a
\* random 122-bit number, taken as never handed out twice.
uuid4(n) == <<"u">> \o NatToStr(n)

\* transaction.py, begin_transaction: tx_id = str(uuid.uuid4())
TransactionManager_new_id(drawn) == uuid4(drawn)

\* transaction/manager.py, begin_transaction: tx_id = str(len(self.transactions) + 1)
manager_new_id(txs) == NatToStr(Cardinality(DOMAIN txs) + 1)

\* `with self.lock:` goes on when nobody holds the lock.
acquire_unlocked(holder) == TRUE
acquire(holder) == holder = Nobody

\* The two tests that open commit and rollback: which ValueError they raise,
\* if any.
TransactionManager_check_found(txs, tx_id) ==
    IF ~HasKey(txs, tx_id) THEN "not_found" ELSE "ok"
TransactionManager_check(txs, tx_id) ==
    IF ~HasKey(txs, tx_id) THEN "not_found"
    ELSE IF txs[tx_id].state # ACTIVE THEN "not_active"
    ELSE "ok"

manager_check_found(txs, tx_id) ==
    IF ~HasKey(txs, tx_id) THEN "not_found" ELSE "ok"
manager_check(txs, tx_id) ==
    IF ~HasKey(txs, tx_id) THEN "not_found"
    ELSE IF txs[tx_id].state # ACTIVE THEN "not_active"
    ELSE "ok"

\* The statements of transaction.py with the locks left as they are.
TransactionManager_steps_keep_locks(op) ==
    CASE op = "begin" -> <<"new_id", "store", "return">>
      [] op = "commit" -> <<"check", "set_committed", "return">>
      [] OTHER -> <<"check", "set_rolled_back", "clear_changes", "return">>

\* The statements of each method inside `with self.lock:`, in program order.
TransactionManager_steps(op) ==
    CASE op = "begin" -> <<"new_id", "store", "return">>
      [] op = "commit" -> <<"check", "set_committed", "clear_locks", "return">>
      [] OTHER -> <<"check", "set_rolled_back", "clear_changes", "clear_locks",
                    "return">>

\* The statements of transaction/manager.py with rollback keeping the changes.
manager_steps_keep_changes(op) ==
    CASE op = "begin" -> <<"new_id", "store", "return">>
      [] op = "commit" -> <<"check", "apply_changes", "set_committed", "return">>
      [] OTHER -> <<"check", "set_rolled_back", "return">>

manager_steps(op) ==
    CASE op = "begin" -> <<"new_id", "store", "return">>
      [] op = "commit" -> <<"check", "apply_changes", "set_committed", "return">>
      [] OTHER -> <<"check", "clear_changes", "set_rolled_back", "return">>

Steps(manager, op) ==
    IF manager = UUID_MANAGER THEN TransactionManager_steps(op)
    ELSE manager_steps(op)

\* The statement that follows step in steps.
StepAfter(steps, step) ==
    steps[(CHOOSE k \in 1..Len(steps) : steps[k] = step) + 1]

\* A thread's position: the method it is in, the statement it is at ("raise"
\* while a ValueError leaves the with block, "done" between calls), and the
\* method's tx_id.
Position(op, step, tx_id) == [op |-> op, step |-> step, tx_id |-> tx_id]
Idle == Position("none", "done", <<>>)

\* An identifier no manager hands out.
S_unknown == <<"0">>

\* InsertStatement
InsertStatement(table_name, columns, values) ==
    [table_name |-> table_name, columns |-> columns, values |-> values]

\* The type conversion of _execute_insert, for a value that is not None.
InsertConvert(column, value) ==
    IF column.data_type = S_integer THEN PyInt(value)
    ELSE IF column.data_type = S_float THEN PyFloat(value)
    ELSE [raised |-> FALSE, value |-> PyStr(value)]

RECURSIVE InsertRowData(_, _, _, _)
\* The loop of _execute_insert over zip(stmt.columns, stmt.values), from the
\* k-th pair on: row_data, or raised (ValueError).
InsertRowData(tbl, stmt, k, row_data) ==
    LET Converted(col_name, conv) ==
            IF conv.raised THEN [raised |-> TRUE, row_data |-> row_data]
            ELSE InsertRowData(tbl, stmt, k + 1, Put(row_data, col_name, conv.value))
        Col(col_name, value, column) ==
            IF column = None THEN [raised |-> TRUE, row_data |-> row_data]
            ELSE IF value = None
            THEN InsertRowData(tbl, stmt, k + 1, Put(row_data, col_name, None))
            ELSE Converted(col_name, InsertConvert(column, value))
    IN  IF k > Len(stmt.columns) \/ k > Len(stmt.values)
        THEN [raised |-> FALSE, row_data |-> row_data]
        ELSE Col(stmt.columns[k], stmt.values[k], ColumnNamed(tbl, stmt.columns[k]))

\* transaction.locks.add(table.name); transaction.changes.append({...})
Track(tbl, stmt, transaction) ==
    LET Paired == {k \in 1..Len(stmt.columns) : k <= Len(stmt.values)}
        Last(c) == CHOOSE k \in Paired :
                       /\ stmt.columns[k] = c
                       /\ \A j \in Paired : stmt.columns[j] = c => j <= k
    IN  [transaction EXCEPT
            !.locks = @ \cup {tbl.name},
            !.changes = Append(@, [type |-> "INSERT", table |-> tbl.name,
                                   data |-> [c \in {stmt.columns[k] : k \in Paired}
                                                |-> stmt.values[Last(c)]]])]

\* _execute_insert keeping the row back until commit: the transaction tracks the
\* insert and no table is written.
_execute_insert_deferred(tables, stmt, transaction) ==
    IF ~HasKey(tables, stmt.table_name)
    THEN [raised |-> TRUE, tables |-> tables, transaction |-> transaction]
    ELSE [raised |-> FALSE, tables |-> tables,
          transaction |-> Track(tables[stmt.table_name], stmt, transaction)]

\* QueryExecutor._execute_insert, with a transaction or with None: whether it
\* raised ValueError, the tables and the transaction after the call.
_execute_insert(tables, stmt, transaction) ==
    LET Inserted(tx, r) ==
            [raised |-> r.raised, tables |-> Put(tables, stmt.table_name, r.table),
             transaction |-> tx]
        Built(tbl, tx, b) ==
            IF b.raised THEN [raised |-> TRUE, tables |-> tables, transaction |-> tx]
            ELSE Inserted(tx, table_insert(tbl, b.row_data))
        On(tbl) ==
            Built(tbl,
                  IF transaction # None THEN Track(tbl, stmt, transaction) ELSE transaction,
                  InsertRowData(tbl, stmt, 1, <<>>))
    IN  IF ~HasKey(tables, stmt.table_name)
        THEN [raised |-> TRUE, tables |-> tables, transaction |-> transaction]
        ELSE On(tables[stmt.table_name])

\* ------------------------------------------------------------- SQLParser
K_SELECT == <<"S", "E", "L", "E", "C", "T">>
K_INSERT == <<"I", "N", "S", "E", "R", "T">>
K_INTO == <<"I", "N", "T", "O">>
K_VALUES == <<"V", "A", "L", "U", "E", "S">>
K_FROM == <<"F", "R", "O", "M">>
K_WHERE == <<"W", "H", "E", "R", "E">>
K_GROUP_BY == <<"G", "R", "O", "U", "P", " ", "B", "Y">>
K_ORDER_BY == <<"O", "R", "D", "E", "R", " ", "B", "Y">>
K_LIMIT == <<"L", "I", "M", "I", "T">>
K_DESC == <<" ", "D", "E", "S", "C">>
K_ASC == <<" ", "A", "S", "C">>
K_TRUE == <<"T", "R", "U", "E">>
K_FALSE == <<"F", "A", "L", "S", "E">>
K_NULL == <<"N", "U", "L", "L">>
Quotes == {"'", "\""}

\* True and False, which parse_insert makes of the words true and false.
BoolVal(b) == [tag |-> "bool", n |-> IF b THEN 1 ELSE 0, s |-> <<>>]

\* ' '.join(sql.split())
Normalize(sql) == Join(<<" ">>, Words(sql))

\* [part.strip() for part in parts]
StripAll(parts) == [k \in 1..Len(parts) |-> Strip(parts[k])]

\* min(x for x in found if x != -1) if any(x != -1 for x in found) else default
FirstClause(found, default) ==
    LET There == {found[k] : k \in 1..Len(found)} \ {0 - 1}
    IN  IF There = {} THEN default
        ELSE CHOOSE x \in There : \A y \in There : x <= y

\* One part of an ORDER BY list.
OrderByClause(part) ==
    IF Contains(Upper(part), K_DESC)
    THEN [column |-> Strip(PySlice(part, 0, PyFind(Upper(part), K_DESC, 0))),
          direction |-> "DESC"]
    ELSE [column |-> Strip(Remove(part, K_ASC)), direction |-> "ASC"]

\* SQLParser.parse_select: whether it raised ValueError, and the statement. The
\* GROUP BY list is parsed into a field that no other code reads, and is left
\* out of the statement here; the clause still bounds the clauses before it.
parse_select(text) ==
    LET Parsed(sql, up) ==
            LET from_idx == PyFind(up, K_FROM, 0)
                where_idx == PyFind(up, K_WHERE, 0)
                group_idx == PyFind(up, K_GROUP_BY, 0)
                order_idx == PyFind(up, K_ORDER_BY, 0)
                limit_idx == PyFind(up, K_LIMIT, 0)
                table_end == FirstClause(<<where_idx, group_idx, order_idx, limit_idx>>,
                                         Len(sql))
                where_end == FirstClause(<<group_idx, order_idx, limit_idx>>, Len(sql))
                order_end == IF limit_idx # 0 - 1 THEN limit_idx ELSE Len(sql)
                order_parts == Split(Strip(PySlice(sql, order_idx + 8, order_end)),
                                     <<",">>)
                limit == ParseInt(Strip(PySlice(sql, limit_idx + 5, Len(sql))))
            IN  IF from_idx = 0 - 1 THEN [raised |-> TRUE, statement |-> None]
                ELSE IF limit_idx # 0 - 1 /\ limit.raised
                THEN [raised |-> TRUE, statement |-> None]
                ELSE [raised |-> FALSE,
                      statement |->
                          SelectStatement(
                              Strip(PySlice(sql, from_idx + 4, table_end)),
                              StripAll(Split(Strip(PySlice(sql, 6, from_idx)), <<",">>)),
                              IF where_idx # 0 - 1
                              THEN StrVal(Strip(PySlice(sql, where_idx + 5, where_end)))
                              ELSE None,
                              IF order_idx # 0 - 1
                              THEN [k \in 1..Len(order_parts) |->
                                       OrderByClause(Strip(order_parts[k]))]
                              ELSE <<>>,
                              IF limit_idx # 0 - 1 THEN IntVal(limit.value) ELSE None)]
        Upped(sql) == Parsed(sql, Upper(sql))
    IN  Upped(Normalize(text))

RECURSIVE SplitValues(_, _, _, _)
\* The loop of parse_insert over the characters of the VALUES list: commas
\* split it, except between quotes.
SplitValues(cs, values, current_value, quote_char) ==
    IF cs = <<>>
    THEN IF current_value # <<>> THEN Append(values, Strip(current_value)) ELSE values
    ELSE IF Head(cs) \in Quotes
    THEN SplitValues(Tail(cs), values, Append(current_value, Head(cs)),
                     IF quote_char = "" THEN Head(cs)
                     ELSE IF quote_char = Head(cs) THEN "" ELSE quote_char)
    ELSE IF Head(cs) = "," /\ quote_char = ""
    THEN SplitValues(Tail(cs), Append(values, Strip(current_value)), <<>>, quote_char)
    ELSE SplitValues(Tail(cs), values, Append(current_value, Head(cs)), quote_char)

\* The clean-up of one value by parse_insert: a quoted str keeps its quotes,
\* then true, false and null, then a number, then the text as it is.
CleanValue(text) ==
    LET value == Strip(text)
        Number(conv) == IF conv.raised THEN StrVal(value) ELSE conv.value
    IN  IF value # <<>> /\ Head(value) \in Quotes /\ value[Len(value)] \in Quotes
        THEN StrVal(value)
        ELSE IF Upper(value) = K_TRUE THEN BoolVal(TRUE)
        ELSE IF Upper(value) = K_FALSE THEN BoolVal(FALSE)
        ELSE IF Upper(value) = K_NULL THEN None
        ELSE IF Contains(value, <<".">>) THEN Number(PyFloat(StrVal(value)))
        ELSE Number(PyInt(StrVal(value)))

\* SQLParser.parse_insert: whether it raised ValueError, and the statement.
parse_insert(text) ==
    LET Parsed(sql) ==
            LET table_start == PyFind(sql, K_INTO, 0) + 4
                table_end == PyFind(sql, <<"(">>, table_start)
                cols_start == PyFind(sql, <<"(">>, table_end) + 1
                cols_end == PyFind(sql, <<")">>, cols_start)
                values_start == PyFind(sql, <<"(">>,
                                       PyFind(sql, K_VALUES, cols_end) + 6) + 1
                values_end == PyFind(sql, <<")">>, values_start)
                columns == StripAll(Split(PySlice(sql, cols_start, cols_end), <<",">>))
                values == SplitValues(PySlice(sql, values_start, values_end),
                                      <<>>, <<>>, "")
            IN  IF Len(columns) # Len(values) THEN [raised |-> TRUE, statement |-> None]
                ELSE [raised |-> FALSE,
                      statement |->
                          InsertStatement(Strip(PySlice(sql, table_start, table_end)),
                                          columns,
                                          [k \in 1..Len(values) |-> CleanValue(values[k])])]
    IN  Parsed(Normalize(text))

\* ------------------------------------------------------------- PyFlareDB
\* QueryOptimizer.optimize returns the statement it is given.
optimize(statement) == statement

\* TransactionManager.get_transaction
get_transaction(txs, tx_id) == Get(txs, tx_id, None)

\* PyFlareDB.execute(sql, tx_id), tx_id being None or a str: whether it raised,
\* what it returned (the rows of a SELECT; an INSERT returns True, written <<>>
\* here), and the tables, the transactions and the query cache after the call.
\* Any exception empties the cache and is raised again.
execute(tables, txs, cache, sql, tx_id) ==
    LET Failed(tbls, ts) ==
            [raised |-> TRUE, result |-> <<>>, tables |-> tbls, transactions |-> ts,
             _query_cache |-> <<>>]
        Selected(r) ==
            IF r.raised THEN Failed(tables, txs)
            ELSE [raised |-> FALSE, result |-> r.rows, tables |-> tables,
                  transactions |-> txs,
                  _query_cache |-> IF tx_id = None THEN Put(cache, sql, r.rows)
                                   ELSE cache]
        Inserted(tx, r) ==
            LET ts == IF tx = None THEN txs ELSE Put(txs, tx_id.s, r.transaction)
            IN  IF r.raised THEN Failed(r.tables, ts)
                ELSE [raised |-> FALSE, result |-> <<>>, tables |-> r.tables,
                      transactions |-> ts, _query_cache |-> cache]
        Run(is_select, statement, tx) ==
            IF is_select THEN Selected(_execute_select(tables, optimize(statement)))
            ELSE Inserted(tx, _execute_insert(tables, optimize(statement), tx))
        WithTx(is_select, statement, tx) ==
            IF tx_id # None /\ tx_id.s # <<>> /\ tx = None THEN Failed(tables, txs)
            ELSE Run(is_select, statement, tx)
        Parsed(is_select, p) ==
            IF p.raised THEN Failed(tables, txs)
            ELSE WithTx(is_select, p.statement,
                        IF tx_id # None /\ tx_id.s # <<>>
                        THEN get_transaction(txs, tx_id.s) ELSE None)
        Fresh(head) ==
            IF StartsWith(head, K_SELECT) THEN Parsed(TRUE, parse_select(sql))
            ELSE IF StartsWith(head, K_INSERT) THEN Parsed(FALSE, parse_insert(sql))
            ELSE Failed(tables, txs)
    IN  IF tx_id = None /\ HasKey(cache, sql)
        THEN [raised |-> FALSE, result |-> cache[sql], tables |-> tables,
              transactions |-> txs, _query_cache |-> cache]
        ELSE Fresh(Upper(Strip(sql)))

\* ------------------------------------------------------------- version store
\* Version (a dataclass).  A timestamp is a datetime, here a number; the
\* operation is one of the str "INSERT", "UPDATE", "DELETE".
Version(timestamp, operation, table_name, row_id, data) ==
    [timestamp |-> timestamp, operation |-> operation, table_name |-> table_name,
     row_id |-> row_id, data |-> data, previous_version |-> None]

\* VersionStore.__init__
VersionStore == [versions |-> <<>>, current_version |-> None]

\* VersionStore.add_version.  Its first statement calls self._calculate_hash,
\* a method that VersionStore does not define and nothing else gives it: the
\* attribute lookup raises AttributeError, before the append and before the
\* assignment of current_version.
add_version(store, version) == [raised |-> TRUE, store |-> store]

\* relevant_versions = [v for v in self.versions if v.timestamp <= timestamp]
relevant_versions(log, timestamp) ==
    SelectSeq(log, LAMBDA v : v.timestamp <= timestamp)

RECURSIVE Replay(_, _)
\* The loop of get_state_at over relevant_versions: the state dict it builds,
\* or raised (KeyError) when a comprehension reads row["id"] of a row that
\* has no "id".
Replay(relevant, state) ==
    LET NoId(rows) == \E k \in 1..Len(rows) : ~HasKey(rows[k], S_id)
        Applied(version, rows) ==
            CASE version.operation = "INSERT" ->
                     [raised |-> FALSE, rows |-> Append(rows, version.data)]
              [] version.operation = "DELETE" ->
                     IF NoId(rows) THEN [raised |-> TRUE, rows |-> rows]
                     ELSE [raised |-> FALSE,
                           rows |-> SelectSeq(rows,
                                        LAMBDA row : row[S_id] # version.row_id)]
              [] version.operation = "UPDATE" ->
                     IF NoId(rows) THEN [raised |-> TRUE, rows |-> rows]
                     ELSE [raised |-> FALSE,
                           rows |-> [k \in 1..Len(rows) |->
                                        IF rows[k][S_id] = version.row_id
                                        THEN version.data ELSE rows[k]]]
              [] OTHER -> [raised |-> FALSE, rows |-> rows]
        Stored(version, r) ==
            IF r.raised THEN [raised |-> TRUE, state |-> state]
            ELSE Replay(Tail(relevant), Put(state, version.table_name, r.rows))
        One(version) ==
            Stored(version, Applied(version, Get(state, version.table_name, <<>>)))
    IN  IF relevant = <<>> THEN [raised |-> FALSE, state |-> state]
        ELSE One(Head(relevant))

\* VersionStore.get_state_at
get_state_at(store, timestamp) ==
    Replay(relevant_versions(store.versions, timestamp), <<>>)

\* The last call on a store and what it returned; the fields a call does not
\* use are blank.
Returned(op, version, timestamp, raised, state) ==
    [op |-> op, version |-> version, timestamp |-> timestamp, raised |-> raised,
     state |-> state]
NoVersion == Version(0, "", <<>>, None, <<>>)
NoReturn == Returned("none", NoVersion, 0, FALSE, <<>>)

\* No version store is in use.
VsUnused ==
    /\ versions = VersionStore.versions
    /\ current_version = VersionStore.current_version
    /\ returned = NoReturn

\* No database object is in use, and no pair of managers.
DbUnused == _query_cache = <<>> /\ both = <<>>

\* No manager is in use.
TxUnused ==
    /\ impl = UUID_MANAGER
    /\ transactions = <<>>
    /\ lock = Nobody
    /\ pc = [t \in Threads |-> Idle]
    /\ issued = <<>>
    /\ uuids = 0

\* ------------------------------------------------------------- the index alone
Keys == {None} \cup {IntVal(i) : i \in 1..MaxKey}

RECURSIVE InsertAll(_, _, _)
\* The root after insert(keys[1], first_id), insert(keys[2], first_id + 1), ...
InsertAll(rt, keys, first_id) ==
    IF keys = <<>> THEN rt
    ELSE InsertAll(insert(rt, Head(keys), first_id), Tail(keys), first_id + 1)

\* The insert sequences a stand-alone index is preloaded with: none, or the
\* ascending keys 1..SeedLen with row ids 0..SeedLen-1.
Seeds == {<<>>, [i \in 1..SeedLen |-> IntVal(i)]}

\* The last call and what it returned; the fields a call does not use are blank.
Outcome(op, raised, at, nrows, stmt, rows) ==
    [op |-> op, raised |-> raised, at |-> at, nrows |-> nrows, stmt |-> stmt,
     rows |-> rows]
NoStmt == SelectStatement(<<>>, <<>>, None, <<>>, None)
NoCall == Outcome("none", FALSE, 0, 0, NoStmt, <<>>)

BTInit ==
    /\ \E seed \in Seeds :
        /\ root = InsertAll(Node(<<>>, <<>>, <<>>, TRUE), seed, 0)
        /\ inserted = [i \in 1..Len(seed) |-> [key |-> seed[i], row_id |-> i - 1]]
        /\ preloaded = Len(seed)
    /\ table = NewTable
    /\ outcome = NoCall
    /\ TxUnused
    /\ VsUnused
    /\ DbUnused

BTInsert(key) ==
    /\ Len(inserted) - preloaded < MaxInserts
    /\ root' = insert(root, key, Len(inserted))
    /\ inserted' = Append(inserted, [key |-> key, row_id |-> Len(inserted)])
    /\ preloaded' = preloaded
    /\ UNCHANGED <<tblVars, txVars, vsVars, dbVars, bothVars>>

BTNext == \E key \in Keys : BTInsert(key)

SpecBTree == BTInit /\ [][BTNext]_vars

\* ------------------------------------------------------------- claims on the index
RECURSIVE RowIdsOf(_, _)
\* The row ids of the history entries with key k, in call order.
RowIdsOf(hist, k) ==
    IF hist = <<>> THEN <<>>
    ELSE (IF Head(hist).key = k THEN <<Head(hist).row_id>> ELSE <<>>)
         \o RowIdsOf(Tail(hist), k)

RECURSIVE RowIdsBetween(_, _, _)
\* The row-id lists of the inserted integer keys lo..hi, ascending by key.
RowIdsBetween(hist, lo, hi) ==
    IF lo > hi THEN <<>>
    ELSE RowIdsOf(hist, IntVal(lo)) \o RowIdsBetween(hist, lo + 1, hi)

RECURSIVE LeafDepths(_)
\* The set of depths at which the leaves under node sit (node itself at depth 1).
LeafDepths(node) ==
    IF node.is_leaf THEN {1}
    ELSE {d + 1 : d \in UNION {LeafDepths(node.children[c]) :
                                   c \in 1..Len(node.children)}}

RECURSIVE Height(_)
\* The number of nodes on the left-most path from node down to a leaf.
Height(node) ==
    IF node.is_leaf \/ node.children = <<>> THEN 1
    ELSE 1 + Height(node.children[1])

\* C1: search(k) returns exactly the row ids inserted under k, in insertion
\* order, and the empty list for a key never inserted.
C1_SearchReturnsInserted ==
    \A k \in Keys : search(root, k) = RowIdsOf(inserted, k)

\* C2: for all bounds lo <= hi, range_search(lo, hi) returns the concatenation,
\* in ascending key order, of the row-id lists of every inserted key in [lo, hi].
C2_RangeReturnsInterval ==
    \A lo \in 1..MaxKey : \A hi \in lo..MaxKey :
        range_search(root, IntVal(lo), IntVal(hi)) = RowIdsBetween(inserted, lo, hi)

\* C3: after any sequence of inserts every leaf is at the same depth, and the
\* height changes only when a full root is split by a new root placed above it.
C3_Balanced ==
    /\ [](Cardinality(LeafDepths(root)) = 1)
    /\ [][Height(root') # Height(root) =>
            /\ Len(root.keys) = (2 * Order) - 1
            /\ Height(root') = Height(root) + 1
            /\ ~root'.is_leaf
            /\ Len(root'.keys) = 1
            /\ Len(root'.children) = 2]_vars

\* An internal root has been split: the tree is three levels high.
C3_Witness == Len(inserted) > preloaded /\ Height(root) = 3 /\ LeafDepths(root) = {3}

RECURSIVE InOrder(_)
\* The keys of the tree in in-order: child 0, key 0, child 1, key 1, ...
InOrder(node) ==
    LET RECURSIVE From(_)
        From(i) ==
            (IF node.is_leaf THEN <<>> ELSE InOrder(node.children[i + 1]))
            \o (IF i < Len(node.keys)
                THEN <<node.keys[i + 1]>> \o From(i + 1)
                ELSE <<>>)
    IN  From(0)

\* C23: each distinct key occupies one key position of the whole tree: the
\* in-order traversal lists strictly ascending keys, and the insert of a key
\* that is already stored adds no key position.
C23_OneKeyPosition ==
    /\ [](\E keys \in {InOrder(root)} :
             \A i \in 1..(Len(keys) - 1) : _compare_keys(keys[i], keys[i + 1]) < 0)
    /\ [][\A k \in 1..Len(inserted) :
             Len(inserted') > Len(inserted)
             /\ inserted'[Len(inserted')].key = inserted[k].key
             => Len(InOrder(root')) = Len(InOrder(root))]_vars

RECURSIVE WellFormed(_)
\* The node and every node below it holds at most 2*Order - 1 keys, one
\* non-empty row-id list per key, and no child if it is a leaf, one child more
\* than keys otherwise.
WellFormed(node) ==
    /\ Len(node.keys) <= (2 * Order) - 1
    /\ Len(node.values) = Len(node.keys)
    /\ \A i \in 1..Len(node.values) : node.values[i] # <<>>
    /\ IF node.is_leaf THEN node.children = <<>>
       ELSE /\ Len(node.children) = Len(node.keys) + 1
            /\ \A i \in 1..Len(node.children) : WellFormed(node.children[i])

\* C24: after any sequence of inserts every node holds at most 2*Order - 1
\* keys, one non-empty row-id list per key, and has no child if it is a leaf
\* and one child more than keys if it is internal.
C24_NodesWellFormed == WellFormed(root)

\* All inserts have been made into a tree whose root is internal and has an
\* internal child, and a key has been inserted twice.
C24_Witness ==
    /\ Len(inserted) - preloaded = MaxInserts
    /\ ~root.is_leaf /\ ~root.children[1].is_leaf
    /\ \E i, j \in 1..Len(inserted) : i < j /\ j > preloaded /\ inserted[i].key = inserted[j].key


\* ------------------------------------------------------------- the table
\* A field a caller leaves out of a row.
Absent == [tag |-> "absent", n |-> 0, s |-> <<>>]

\* The row dict {"id": idv, "f": fv} without the fields that are Absent.
Row(idv, fv) ==
    [c \in (IF idv = Absent THEN {} ELSE {S_id}) \cup (IF fv = Absent THEN {} ELSE {S_f})
        |-> IF c = S_id THEN idv ELSE fv]

\* What a caller passes as id for the row at position j of a batch sent to a
\* table of n rows: nothing, a str that is no number, the id of the first row,
\* or the next unused id; "null" is an explicit None.
IdOptions == {"absent", "bad", "first", "fresh"}
IdValue(opt, n, j) ==
    CASE opt = "absent" -> Absent
      [] opt = "null" -> None
      [] opt = "bad" -> StrVal(S_x)
      [] opt = "first" -> IntVal(1)
      [] OTHER -> IntVal(n + j)

BatchFValues == {Absent, IntVal(1), StrVal(S_x)}
QueryFValues == {None} \cup {IntVal(v) : v \in 1..MaxVal}

\* The batches of 1..MaxBatch rows sent to a table of n rows.
Batches(n, fvalues) ==
    UNION {{[j \in 1..len |-> Row(IdValue(b[j][1], n, j), b[j][2])] :
              b \in [1..len -> IdOptions \X fvalues]} : len \in 1..MaxBatch}

TableInit ==
    /\ root = Node(<<>>, <<>>, <<>>, TRUE)
    /\ inserted = <<>>
    /\ preloaded = 0
    /\ table = NewTable
    /\ outcome = NoCall
    /\ TxUnused
    /\ VsUnused
    /\ DbUnused

TblCreateIndex(column_name) ==
    /\ \E r \in {create_index(table, column_name)} :
        /\ table' = r.table
        /\ outcome' = Outcome("create_index", r.raised, 0, 0, NoStmt, <<>>)
    /\ UNCHANGED <<btVars, txVars, vsVars, dbVars, bothVars>>

TblBatchInsert(rows) ==
    /\ Len(table.data) + Len(rows) <= MaxRows
    /\ \E r \in {batch_insert(table, rows)} :
        /\ table' = r.table
        /\ outcome' = Outcome("batch_insert", r.raised, r.at, Len(rows), NoStmt, <<>>)
    /\ UNCHANGED <<btVars, txVars, vsVars, dbVars, bothVars>>

TblInsert(row) ==
    /\ Len(table.data) < MaxRows
    /\ \E r \in {table_insert(table, row)} :
        /\ table' = r.table
        /\ outcome' = Outcome("insert", r.raised, r.at, 1, NoStmt, <<>>)
    /\ UNCHANGED <<btVars, txVars, vsVars, dbVars, bothVars>>

TableNext ==
    \/ \E c \in {S_f, S_absent} : TblCreateIndex(c)
    \/ \E rows \in Batches(Len(table.data), BatchFValues) : TblBatchInsert(rows)
    \/ \E fv \in BatchFValues, opt \in IdOptions :
           TblInsert(Row(IdValue(opt, Len(table.data), 1), fv))

SpecTable == TableInit /\ [][TableNext]_vars

\* ------------------------------------------------------------- a table of floats
\* What a caller passes for the float column: nothing, a float, nan, or a str
\* that is no number.
FloatFValues == {Absent, FloatVal(1), FloatVal(2), NaN, StrVal(S_x)}

\* The batches of 1..MaxBatch rows sent to a table of n rows of floats.
FloatBatches(n) ==
    UNION {{[j \in 1..len |-> Row(IdValue(b[j][1], n, j), b[j][2])] :
              b \in [1..len -> {"first", "fresh"} \X FloatFValues]} :
           len \in 1..MaxBatch}

FloatInit ==
    /\ root = Node(<<>>, <<>>, <<>>, TRUE)
    /\ inserted = <<>>
    /\ preloaded = 0
    /\ table = NewFloatTable
    /\ outcome = NoCall
    /\ TxUnused
    /\ VsUnused
    /\ DbUnused

FloatNext ==
    \/ \E c \in {S_f, S_absent} : TblCreateIndex(c)
    \/ \E rows \in FloatBatches(Len(table.data)) : TblBatchInsert(rows)
    \/ \E fv \in FloatFValues, opt \in {"first", "fresh"} :
           TblInsert(Row(IdValue(opt, Len(table.data), 1), fv))
    \/ TblInsert(Row(IdValue("null", Len(table.data), 1), FloatVal(1)))

SpecFloat == FloatInit /\ [][FloatNext]_vars

\* ------------------------------------------------------------- queries
\* The WHERE clause "field op literal".
Where(field, op, literal) == StrVal(field \o <<" ">> \o op \o <<" ">> \o literal)

\* The literals of the WHERE clauses: 0..MaxVal and a str that is no number.
Literals == {IntToStr(v) : v \in 0..MaxVal} \cup {S_x}

\* SELECT * FROM users WHERE f op literal
Selects(ops) ==
    {SelectStatement(S_users, <<S_star>>, Where(S_f, op, lit), <<>>, None) :
        op \in ops, lit \in Literals}

\* The executor's tables dict.
Tables(tbl) == [name \in {S_users} |-> tbl]

ExecSelect(stmt) ==
    /\ \E r \in {_execute_select(Tables(table), stmt)} :
        outcome' = Outcome("select", r.raised, 0, 0, stmt, r.rows)
    /\ UNCHANGED <<table, btVars, txVars, vsVars, dbVars, bothVars>>

\* The callers of this scenario fill the table, index f at any point, and query
\* once f has its index.
QueryNext ==
    \/ \E c \in {S_f, S_absent} : TblCreateIndex(c)
    \/ \E fv \in QueryFValues :
           TblInsert(Row(IdValue("fresh", Len(table.data), 1), fv))
    \/ /\ HasKey(table._indexes, S_f)
       /\ \E stmt \in Selects({OP_gt, OP_ge, OP_eq, OP_lt, OP_le}) : ExecSelect(stmt)

SpecQuery == TableInit /\ [][QueryNext]_vars

\* ------------------------------------------------------------- other selections
\* SELECT COUNT(*) FROM users [WHERE f = 1]
S_COUNT_STAR == <<"C", "O", "U", "N", "T", "(", "*", ")">>
CountSelects ==
    {SelectStatement(S_users, <<S_COUNT_STAR>>, w, <<>>, None) :
        w \in {None, Where(S_f, OP_eq, IntToStr(1))}}

\* Predicates that do not parse: no operator, a comparison that splits into
\* three parts, and a conjunction whose second part has no operator.
BadPredicates ==
    {StrVal(S_f),
     StrVal(S_f \o <<" ">> \o OP_eq \o <<" ", "1", " ">> \o OP_eq \o <<" ", "1">>),
     StrVal(Where(S_f, OP_eq, IntToStr(1)).s \o S_AND \o S_f)}
\* SELECT * FROM users WHERE <a predicate that does not parse>
BadSelects ==
    {SelectStatement(S_users, <<S_star>>, w, <<>>, None) : w \in BadPredicates}

\* The callers of this scenario fill the table, index f at any point, and at
\* any point select with !=, count, or select with a predicate that does not
\* parse.
SelectNext ==
    \/ \E c \in {S_f, S_absent} : TblCreateIndex(c)
    \/ \E fv \in QueryFValues :
           TblInsert(Row(IdValue("fresh", Len(table.data), 1), fv))
    \/ \E stmt \in Selects({OP_ne}) \cup CountSelects \cup BadSelects : ExecSelect(stmt)

SpecSelect == TableInit /\ [][SelectNext]_vars

\* ------------------------------------------------------------- conjunctions
AllOps == {OP_ge, OP_le, OP_gt, OP_lt, OP_eq, OP_ne}
Cond(field, op, literal) == [field |-> field, op |-> op, literal |-> literal]
\* What the rows of this scenario hold in f.
FilterFValues == {None, IntVal(1), IntVal(2)}
\* The six comparisons of f with a literal that some value of f satisfies and
\* some does not, and one with a str that is no number.
FirstConds ==
    {Cond(S_f, op, IntToStr(1)) : op \in AllOps \ {OP_lt}}
    \cup {Cond(S_f, OP_lt, IntToStr(2)), Cond(S_f, OP_eq, S_x)}
\* A comparison on id, and one on a field no row has.
SecondConds == {Cond(S_id, OP_ge, IntToStr(2)), Cond(S_absent, OP_ge, IntToStr(0))}
CondLists == {<<c, d>> : c \in FirstConds, d \in SecondConds}

\* The WHERE clause "field op literal AND field op literal ...".
Conjunction(conds) ==
    StrVal(Join(S_AND, [k \in 1..Len(conds) |->
                           conds[k].field \o <<" ">> \o conds[k].op \o <<" ">>
                           \o conds[k].literal]))

\* SELECT * FROM users WHERE <conjunction>
FilterSelects ==
    {SelectStatement(S_users, <<S_star>>, Conjunction(conds), <<>>, None) :
        conds \in CondLists}

\* The callers of this scenario fill the table, index f or id at any point,
\* and select with a conjunction at any point.
FilterNext ==
    \/ \E c \in {S_f, S_id} : TblCreateIndex(c)
    \/ \E fv \in FilterFValues :
           TblInsert(Row(IdValue("fresh", Len(table.data), 1), fv))
    \/ \E stmt \in FilterSelects : ExecSelect(stmt)

SpecFilter == TableInit /\ [][FilterNext]_vars

\* ------------------------------------------------------------- ordered selections
Asc(column) == [column |-> column, direction |-> "ASC"]
Desc(column) == [column |-> column, direction |-> "DESC"]
\* ORDER BY f [DESC]
OneClause == {<<Asc(S_f)>>, <<Desc(S_f)>>}
\* ORDER BY f, id DESC and ORDER BY id DESC, f
TwoClauses == {<<Asc(S_f), Desc(S_id)>>, <<Desc(S_id), Asc(S_f)>>}
\* A predicate every row satisfies, answered through the index on id when
\* there is one.
EveryRow == Where(S_id, OP_le, IntToStr(9))
\* SELECT * FROM users [WHERE id <= 9] ORDER BY <one or two clauses>, and
\* SELECT id FROM users [WHERE id <= 9] ORDER BY f [DESC] LIMIT 2
OrderSelects ==
    {SelectStatement(S_users, <<S_star>>, w, order_by, None) :
        w \in {None, EveryRow}, order_by \in OneClause \cup TwoClauses}
    \cup {SelectStatement(S_users, <<S_id>>, w, order_by, IntVal(2)) :
              w \in {None, EveryRow}, order_by \in OneClause}

\* The callers of this scenario fill the table, index id at any point, and
\* select in some order at any point.
OrderNext ==
    \/ TblCreateIndex(S_id)
    \/ \E fv \in FilterFValues :
           TblInsert(Row(IdValue("fresh", Len(table.data), 1), fv))
    \/ \E stmt \in OrderSelects : ExecSelect(stmt)

SpecOrder == TableInit /\ [][OrderNext]_vars

\* ------------------------------------------------------------- claims on the table
RowSet(rows) == {rows[k] : k \in 1..Len(rows)}

\* The rows the executor returns for stmt on the same table contents when no
\* column has an index.
ScanRows(stmt) ==
    _execute_select(Tables([table EXCEPT !._indexes = <<>>]), stmt).rows

\* The last call was a select with one of these operators on f, and f has an index.
IndexedSelect(ops) ==
    /\ outcome.op = "select"
    /\ outcome.stmt \in Selects(ops)
    /\ HasKey(table._indexes, S_f)

C5_GreaterIndexEqualsScan ==
    IndexedSelect({OP_gt, OP_ge}) => RowSet(outcome.rows) = RowSet(ScanRows(outcome.stmt))

\* C6: for `f = v` the rows returned with an index on f are the rows returned
\* without one.
C6_EqualIndexEqualsScan ==
    IndexedSelect({OP_eq}) => RowSet(outcome.rows) = RowSet(ScanRows(outcome.stmt))

\* C7: for `f < v` and `f <= v` the rows returned with an index on f are the
\* rows returned without one.
C7_LessIndexEqualsScan ==
    IndexedSelect({OP_lt, OP_le}) => RowSet(outcome.rows) = RowSet(ScanRows(outcome.stmt))

\* `f <= 2` has been answered through a split index on a table that holds a
\* row with f null, and has returned rows.
C7_Witness ==
    /\ IndexedSelect({OP_le})
    /\ outcome.stmt.where_clause = Where(S_f, OP_le, IntToStr(MaxVal))
    /\ ~table._indexes[S_f].is_leaf
    /\ \E k \in 1..Len(table.data) : table.data[k][S_f] = None
    /\ Len(outcome.rows) >= 2

\* ------------------------------------------------------------- claims on uniqueness and the indexes
\* The names of the columns declared unique.
UniqueColumns(tbl) ==
    {tbl.columns[c].name : c \in {j \in 1..Len(tbl.columns) : tbl.columns[j].unique}}

\* A row of the batch gives unique column u an integer that a stored row holds.
CollidesWithStored(tbl, rows, u) ==
    \E j \in 1..Len(rows), k \in 1..Len(tbl.data) :
        /\ HasKey(rows[j], u) /\ rows[j][u].tag = "int"
        /\ tbl.data[k][u] = rows[j][u]

\* Two rows of the batch give unique column u the same integer.
CollidesInBatch(rows, u) ==
    \E i, j \in 1..Len(rows) :
        /\ i < j
        /\ HasKey(rows[i], u) /\ HasKey(rows[j], u)
        /\ rows[j][u].tag = "int" /\ rows[i][u] = rows[j][u]

\* The batches of 1..MaxBatch rows whose id is absent or any integer that a
\* table of MaxRows rows can hold, or the next one.
IdBatches(tbl) ==
    UNION {{[j \in 1..len |-> Row(b[j], IntVal(1))] :
              b \in [1..len -> {Absent} \cup {IntVal(k) : k \in 1..(MaxRows + 1)}]} :
           len \in 1..MaxBatch}

\* C13: no two stored rows hold the same non-null value in a unique column,
\* and batch_insert rejects every batch in which a value of a unique column
\* is held by a stored row or by another row of the batch.
C13_UniqueValuesStayUnique ==
    /\ \A u \in UniqueColumns(table) : \A i, j \in 1..Len(table.data) :
          i # j /\ table.data[i][u] # None => table.data[i][u] # table.data[j][u]
    /\ \A u \in UniqueColumns(table) : \A rows \in IdBatches(table) :
          CollidesWithStored(table, rows, u) \/ CollidesInBatch(rows, u)
          => batch_insert(table, rows).raised

\* A batch has been rejected at its second row on a table of two rows; there,
\* a batch of two new rows with one id and a batch that repeats a stored id are
\* both rejected, and a batch of two new ids is not.
C13_Witness ==
    /\ outcome.op = "batch_insert" /\ outcome.raised /\ outcome.at = 2
    /\ Len(table.data) = 2
    /\ ~HasKey(table._indexes, S_f)
    /\ \E rows \in IdBatches(table) :
          /\ Len(rows) = 2
          /\ CollidesInBatch(rows, S_id) /\ ~CollidesWithStored(table, rows, S_id)
          /\ batch_insert(table, rows).raised
    /\ \E rows \in IdBatches(table) :
          /\ CollidesWithStored(table, rows, S_id) /\ ~CollidesInBatch(rows, S_id)
          /\ batch_insert(table, rows).raised
    /\ \E rows \in IdBatches(table) : Len(rows) = 2 /\ ~batch_insert(table, rows).raised

RECURSIVE PairsIn(_)
\* The (key, row id) pairs a tree holds, one for each row id of each key of
\* each node.
PairsIn(node) ==
    LET RECURSIVE OfKeys(_), OfChildren(_)
        OfValues(key, ids) == [k \in 1..Len(ids) |-> <<key, ids[k]>>]
        OfKeys(i) ==
            IF i > Len(node.keys) THEN <<>>
            ELSE OfValues(node.keys[i], node.values[i]) \o OfKeys(i + 1)
        OfChildren(i) ==
            IF i > Len(node.children) THEN <<>>
            ELSE PairsIn(node.children[i]) \o OfChildren(i + 1)
    IN  OfKeys(1) \o OfChildren(1)

\* The pairs an index on column c has to hold: one for each stored row, its row
\* id being its zero-based position in data.
PairsOf(tbl, c) == {<<tbl.data[r + 1][c], r>> : r \in 0..(Len(tbl.data) - 1)}

\* C14: every registered index holds exactly the pairs (data[r][c], r), each
\* once, and the unique map of every unique column maps exactly the non-null
\* values of the column, each to the row id of the row holding it.
C14_IndexesMatchData ==
    /\ \A c \in DOMAIN table._indexes :
          \E p \in {PairsIn(table._indexes[c])} :
              /\ Len(p) = Len(table.data)
              /\ {p[k] : k \in 1..Len(p)} = PairsOf(table, c)
    /\ \A u \in UniqueColumns(table) :
          /\ DOMAIN table._unique_indexes[u] =
                 {table.data[r][u] : r \in 1..Len(table.data)} \ {None}
          /\ \A r \in 1..Len(table.data) :
                 table.data[r][u] # None
                 => table._unique_indexes[u][table.data[r][u]] = r - 1

\* C25: no stored row holds None in a column declared non-nullable: an insert
\* or batch_insert of a row that gives such a column an explicit None stores
\* nothing.
C25_NoNullInRequiredColumn ==
    \A c \in 1..Len(table.columns) : \A r \in 1..Len(table.data) :
        ~table.columns[c].nullable => table.data[r][table.columns[c].name] # None

\* ------------------------------------------------------------- claims on other selections
\* The literal of a WHERE clause "f op literal" of Selects.
LiteralOf(stmt) == CHOOSE lit \in Literals :
                       \E op \in {OperatorOrder[k] : k \in 1..Len(OperatorOrder)} :
                           stmt.where_clause = Where(S_f, op, lit)

\* C26: a selection with the predicate `f != v` returns exactly the stored rows
\* whose f is not None and differs from v, with or without an index on f, and
\* the predicate parser yields (f, op, v) for each of the six operators.
C26_NotEqualSelects ==
    outcome.op = "select" /\ outcome.stmt \in Selects({OP_ne})
    => /\ \A k \in 1..Len(OperatorOrder) :
             _parse_where_clause(Where(S_f, OperatorOrder[k], LiteralOf(outcome.stmt)).s)
             = [raised |-> FALSE,
                conditions |-> <<[field |-> S_f, op |-> OperatorOrder[k],
                                  value |-> LiteralOf(outcome.stmt)]>>]
       /\ ~outcome.raised
       /\ ~ParseInt(LiteralOf(outcome.stmt)).raised
          => RowSet(outcome.rows) =
                 {table.data[r] : r \in {j \in 1..Len(table.data) :
                     /\ table.data[j][S_f] # None
                     /\ table.data[j][S_f].n # ParseInt(LiteralOf(outcome.stmt)).value}}

\* C29: a selection with COUNT(*) as its sole column returns one row
\* {count: n}, n being the number of stored rows that satisfy the predicate
\* (of all stored rows when there is none).
C29_CountsMatchingRows ==
    outcome.op = "select" /\ outcome.stmt \in CountSelects
    => /\ ~outcome.raised
       /\ outcome.rows =
             <<[c \in {S_count} |->
                  IntVal(Cardinality(
                      {r \in 1..Len(table.data) :
                          outcome.stmt.where_clause # None => table.data[r][S_f] = IntVal(1)}))]>>

\* C30: a selection whose predicate does not parse raises nothing, returns the
\* row list of the full-scan path, and leaves the table and every transaction
\* as they were, with or without an index.
C30_BadPredicateFallsBack ==
    /\ [](outcome.op = "select" /\ outcome.stmt \in BadSelects
          => /\ _parse_where_clause(outcome.stmt.where_clause.s).raised
             /\ ~outcome.raised
             /\ outcome.rows = _table_scan(table, outcome.stmt))
    /\ [][outcome'.op = "select" /\ outcome'.stmt \in BadSelects /\ outcome' # outcome
            => table' = table /\ transactions' = transactions]_vars

\* A selection with a predicate of three parts has returned on a table of two
\* rows or more that has an index on f.
C30_Witness ==
    /\ outcome.op = "select" /\ ~outcome.raised
    /\ outcome.stmt \in BadSelects
    /\ Len(Split(outcome.stmt.where_clause.s, OP_eq)) = 3
    /\ HasKey(table._indexes, S_f)
    /\ Len(table.data) >= 2
    /\ outcome.rows = <<>>

\* ------------------------------------------------------------- claims on conjunctions
\* The conditions a statement of FilterSelects was written from.
CondsOf(stmt) == CHOOSE conds \in CondLists : Conjunction(conds) = stmt.where_clause

\* The row has an integer in the condition's field, the literal is an
\* integer, and the comparison the operator stands for is true of the two.
Holds(row, cond) ==
    LET Is(a, b) ==
            CASE cond.op = OP_ge -> a >= b
              [] cond.op = OP_le -> a <= b
              [] cond.op = OP_gt -> a > b
              [] cond.op = OP_lt -> a < b
              [] cond.op = OP_eq -> a = b
              [] OTHER -> a # b
    IN  /\ HasKey(row, cond.field)
        /\ row[cond.field].tag = "int"
        /\ ~ParseInt(cond.literal).raised
        /\ Is(row[cond.field].n, ParseInt(cond.literal).value)

\* C31: with or without an index, every row a selection with a conjunction
\* returns is a stored row that satisfies every condition of the conjunction;
\* a row whose field for some condition is missing or null is not returned.
C31_ReturnedRowsSatisfyAll ==
    outcome.op = "select" /\ outcome.stmt \in FilterSelects
        => \A k \in 1..Len(outcome.rows) :
               /\ outcome.rows[k] \in RowSet(table.data)
               /\ \A j \in 1..Len(CondsOf(outcome.stmt)) :
                      Holds(outcome.rows[k], CondsOf(outcome.stmt)[j])

\* "f <= 1 AND id >= 2" has been answered through the index on f and has
\* returned rows, on a table that holds a row with f null, and a row with
\* f <= 1 whose id is below 2.
C31_Witness ==
    /\ outcome.op = "select"
    /\ outcome.stmt.where_clause
           = Conjunction(<<Cond(S_f, OP_le, IntToStr(1)), Cond(S_id, OP_ge, IntToStr(2))>>)
    /\ HasKey(table._indexes, S_f) /\ ~HasKey(table._indexes, S_id)
    /\ outcome.rows # <<>>
    /\ \E k \in 1..Len(table.data) : table.data[k][S_f] = None
    /\ \E k \in 1..Len(table.data) :
           table.data[k][S_f] = IntVal(1) /\ table.data[k][S_id].n < 2

\* ------------------------------------------------------------- claims on index creation
\* C35: at every moment the index of a column, whether it was created before
\* the inserts or between them, is the very tree create_index builds from the
\* rows stored at that moment, so every lookup and range search through it
\* answers alike; and a create_index on a column that has an index changes
\* neither that tree, nor any other index, nor the stored rows.
C35_IndexSameBeforeOrAfter ==
    /\ [](\A c \in DOMAIN table._indexes :
             table._indexes[c] = create_index(table, c).table._indexes[c])
    /\ [][outcome'.op = "create_index"
              => /\ table'.data = table.data
                 /\ table'._unique_indexes = table._unique_indexes
                 /\ \A c \in DOMAIN table._indexes :
                        HasKey(table'._indexes, c)
                        /\ table'._indexes[c] = table._indexes[c]]_vars

\* The index on f was there before the last insert, holds a null key, and has
\* split; a row stored before that insert holds a null f too.
C35_Witness ==
    /\ outcome.op = "insert" /\ ~outcome.raised
    /\ HasKey(table._indexes, S_f)
    /\ ~table._indexes[S_f].is_leaf
    /\ table.data[Len(table.data)][S_f] = None
    /\ \E k \in 1..(Len(table.data) - 1) : table.data[k][S_f] = None

\* ------------------------------------------------------------- claims on ordered selections
\* The last call was a selection of these columns in one of these orders.
OrderedSelect(columns, orders) ==
    /\ outcome.op = "select"
    /\ outcome.stmt \in OrderSelects
    /\ outcome.stmt.columns = columns
    /\ outcome.stmt.order_by \in orders

\* Row a may stand before row b under the clause: a null f goes last when
\* ascending and first when descending, and rows with the same f stand in the
\* order of their ids, which is the order in which the table holds them.
InClauseOrder(a, b, clause) ==
    LET va == a[clause.column]
        vb == b[clause.column]
    IN  IF va = vb THEN a[S_id].n < b[S_id].n
        ELSE IF clause.direction = "ASC"
        THEN vb = None \/ (va # None /\ va.n < vb.n)
        ELSE va = None \/ (vb # None /\ va.n > vb.n)

\* C32: a selection of * with one order clause on f does not raise, returns
\* every stored row once, the rows with f null after the others when ascending
\* and before them when descending, the others in ascending or descending f,
\* and rows with the same f in the order the table holds them.
C32_OneClauseOrder ==
    OrderedSelect(<<S_star>>, OneClause)
        => /\ ~outcome.raised
           /\ Len(outcome.rows) = Len(table.data)
           /\ RowSet(outcome.rows) = RowSet(table.data)
           /\ \A i, j \in 1..Len(outcome.rows) :
                  i < j => InClauseOrder(outcome.rows[i], outcome.rows[j],
                                         outcome.stmt.order_by[1])

\* A descending selection has put two rows with f null first, in the order
\* of their ids, before two rows that hold the same f.
C32_Witness ==
    /\ OrderedSelect(<<S_star>>, {<<Desc(S_f)>>})
    /\ Len(outcome.rows) = 4
    /\ outcome.rows[1][S_f] = None /\ outcome.rows[2][S_f] = None
    /\ outcome.rows[3][S_f] = outcome.rows[4][S_f]
    /\ table.data[1][S_f] # None /\ table.data[2][S_f] = None

\* C33: in a selection of * with two order clauses, two rows that differ in
\* the column of the first clause stand in the order of the first clause, and
\* two rows that agree in it stand in the order of the second clause.
C33_FirstClauseIsPrimary ==
    OrderedSelect(<<S_star>>, TwoClauses)
        => \A i, j \in 1..Len(outcome.rows) :
               i < j =>
                   LET a == outcome.rows[i]
                       b == outcome.rows[j]
                       first == outcome.stmt.order_by[1]
                       second == outcome.stmt.order_by[2]
                   IN  IF a[first.column] # b[first.column]
                       THEN InClauseOrder(a, b, first)
                       ELSE InClauseOrder(a, b, second)

\* The stored row a result row {"id": ...} was projected from.
StoredRow(row) ==
    table.data[CHOOSE k \in 1..Len(table.data) : table.data[k][S_id] = row[S_id]]

\* C34: a selection of id ordered by f with LIMIT 2 returns the ids of the
\* first two stored rows in the order of their stored f, on the index path as
\* on the scan path.
C34_OrderByStoredValue ==
    OrderedSelect(<<S_id>>, OneClause)
        => /\ Len(outcome.rows) = (IF Len(table.data) < 2 THEN Len(table.data) ELSE 2)
           /\ \A i \in 1..Len(outcome.rows) :
                  /\ DOMAIN outcome.rows[i] = {S_id}
                  /\ \E k \in 1..Len(table.data) :
                         table.data[k][S_id] = outcome.rows[i][S_id]
           /\ \A i, j \in 1..Len(outcome.rows) :
                  i < j => InClauseOrder(StoredRow(outcome.rows[i]),
                                         StoredRow(outcome.rows[j]),
                                         outcome.stmt.order_by[1])
           /\ \A i \in 1..Len(outcome.rows), k \in 1..Len(table.data) :
                  (\A j \in 1..Len(outcome.rows) :
                       outcome.rows[j][S_id] # table.data[k][S_id])
                  => InClauseOrder(StoredRow(outcome.rows[i]), table.data[k],
                                   outcome.stmt.order_by[1])
           /\ outcome.rows = ScanRows(outcome.stmt)

\* ------------------------------------------------------------- the managers
TxInit ==
    /\ impl \in Managers
    /\ transactions = <<>>
    /\ lock = Nobody
    /\ pc = [t \in Threads |-> Idle]
    /\ issued = <<>>
    /\ uuids = 0
    /\ root = Node(<<>>, <<>>, <<>>, TRUE)
    /\ inserted = <<>>
    /\ preloaded = 0
    /\ table = NewTable
    /\ outcome = NoCall
    /\ VsUnused
    /\ DbUnused

\* The begin_transaction calls that have been made.
Begun ==
    Len(issued) + Cardinality({t \in Threads : pc[t].op = "begin" /\ pc[t].step # "done"})

\* The changes all transactions hold.
RECURSIVE Tracked(_)
Tracked(ids) ==
    IF ids = {} THEN 0
    ELSE LET id == CHOOSE x \in ids : TRUE
         IN  Len(transactions[id].changes) + Tracked(ids \ {id})

\* The thread moves on to the statement after the one it is at.
Advance(t, tx_id) ==
    pc' = [pc EXCEPT ![t] = Position(pc[t].op, StepAfter(Steps(impl, pc[t].op), pc[t].step),
                                     tx_id)]

\* A thread calls begin_transaction(), commit(tx_id) or rollback(tx_id).
TxCall(t, op, tx_id) ==
    /\ pc[t].step = "done"
    /\ op = "begin" => Begun < MaxTx
    /\ pc' = [pc EXCEPT ![t] = Position(op, "acquire", tx_id)]
    /\ UNCHANGED <<impl, transactions, lock, issued, uuids, btVars, tblVars, vsVars, dbVars, bothVars>>

\* with self.lock:
TxAcquire(t) ==
    /\ pc[t].step = "acquire"
    /\ acquire(lock)
    /\ lock' = t
    /\ pc' = [pc EXCEPT ![t] = Position(pc[t].op, Steps(impl, pc[t].op)[1], pc[t].tx_id)]
    /\ UNCHANGED <<impl, transactions, issued, uuids, btVars, tblVars, vsVars, dbVars, bothVars>>

\* begin_transaction: tx_id = ...
TxNewId(t) ==
    /\ pc[t].step = "new_id"
    /\ IF impl = UUID_MANAGER
       THEN Advance(t, TransactionManager_new_id(uuids)) /\ uuids' = uuids + 1
       ELSE Advance(t, manager_new_id(transactions)) /\ uuids' = uuids
    /\ UNCHANGED <<impl, transactions, lock, issued, btVars, tblVars, vsVars, dbVars, bothVars>>

\* begin_transaction: self.transactions[tx_id] = Transaction(tx_id)
TxStore(t) ==
    /\ pc[t].step = "store"
    /\ transactions' = Put(transactions, pc[t].tx_id, Transaction(pc[t].tx_id))
    /\ Advance(t, pc[t].tx_id)
    /\ UNCHANGED <<impl, lock, issued, uuids, btVars, tblVars, vsVars, dbVars, bothVars>>

\* commit, rollback: the two tests, which go on or raise ValueError.
TxCheck(t) ==
    /\ pc[t].step = "check"
    /\ \E verdict \in {IF impl = UUID_MANAGER
                       THEN TransactionManager_check(transactions, pc[t].tx_id)
                       ELSE manager_check(transactions, pc[t].tx_id)} :
          IF verdict = "ok"
          THEN Advance(t, pc[t].tx_id)
          ELSE pc' = [pc EXCEPT ![t] = Position(pc[t].op, "raise", pc[t].tx_id)]
    /\ UNCHANGED <<impl, transactions, lock, issued, uuids, btVars, tblVars, vsVars, dbVars, bothVars>>

\* The ValueError reaches the caller and the lock stays with the thread.
TxRaise_keep_lock(t) ==
    /\ pc[t].step = "raise"
    /\ pc' = [pc EXCEPT ![t] = Idle]
    /\ UNCHANGED <<impl, transactions, lock, issued, uuids, btVars, tblVars, vsVars, dbVars, bothVars>>

\* The ValueError leaves the with block, which releases the lock, and reaches
\* the caller.
TxRaise(t) ==
    /\ pc[t].step = "raise"
    /\ lock' = Nobody
    /\ pc' = [pc EXCEPT ![t] = Idle]
    /\ UNCHANGED <<impl, transactions, issued, uuids, btVars, tblVars, vsVars, dbVars, bothVars>>

\* commit (transaction/manager.py): self._apply_changes(tx), a loop of `pass`
TxApplyChanges(t) ==
    /\ pc[t].step = "apply_changes"
    /\ Advance(t, pc[t].tx_id)
    /\ UNCHANGED <<impl, transactions, lock, issued, uuids, btVars, tblVars, vsVars, dbVars, bothVars>>

\* commit: tx.state = TransactionState.COMMITTED
TxSetCommitted(t) ==
    /\ pc[t].step = "set_committed"
    /\ transactions' = [transactions EXCEPT ![pc[t].tx_id].state = COMMITTED]
    /\ Advance(t, pc[t].tx_id)
    /\ UNCHANGED <<impl, lock, issued, uuids, btVars, tblVars, vsVars, dbVars, bothVars>>

\* rollback: tx.state = TransactionState.ROLLED_BACK
TxSetRolledBack(t) ==
    /\ pc[t].step = "set_rolled_back"
    /\ transactions' = [transactions EXCEPT ![pc[t].tx_id].state = ROLLED_BACK]
    /\ Advance(t, pc[t].tx_id)
    /\ UNCHANGED <<impl, lock, issued, uuids, btVars, tblVars, vsVars, dbVars, bothVars>>

\* rollback: tx.changes.clear(), with the rows of the table taken back as well.
TxClearChangesUndo(t) ==
    /\ pc[t].step = "clear_changes"
    /\ transactions' = [transactions EXCEPT ![pc[t].tx_id].changes = <<>>]
    /\ table' = NewTable
    /\ Advance(t, pc[t].tx_id)
    /\ UNCHANGED <<impl, lock, issued, uuids, outcome, btVars, vsVars, dbVars, bothVars>>

\* rollback: tx.changes.clear()
TxClearChanges(t) ==
    /\ pc[t].step = "clear_changes"
    /\ transactions' = [transactions EXCEPT ![pc[t].tx_id].changes = <<>>]
    /\ Advance(t, pc[t].tx_id)
    /\ UNCHANGED <<impl, lock, issued, uuids, btVars, tblVars, vsVars, dbVars, bothVars>>

\* commit, rollback (transaction.py): tx.locks.clear()
TxClearLocks(t) ==
    /\ pc[t].step = "clear_locks"
    /\ transactions' = [transactions EXCEPT ![pc[t].tx_id].locks = {}]
    /\ Advance(t, pc[t].tx_id)
    /\ UNCHANGED <<impl, lock, issued, uuids, btVars, tblVars, vsVars, dbVars, bothVars>>

\* The method returns and the with block releases the lock.
TxReturn(t) ==
    /\ pc[t].step = "return"
    /\ lock' = Nobody
    /\ pc' = [pc EXCEPT ![t] = Idle]
    /\ issued' = IF pc[t].op = "begin" THEN Append(issued, pc[t].tx_id) ELSE issued
    /\ UNCHANGED <<impl, transactions, uuids, btVars, tblVars, vsVars, dbVars, bothVars>>

\* SELECT * FROM users
SelectAll == SelectStatement(S_users, <<S_star>>, None, <<>>, None)

\* INSERT INTO users (id, f) VALUES (1, 1)
InsertOne == InsertStatement(S_users, <<S_id, S_f>>, <<IntVal(1), IntVal(1)>>)

\* QueryExecutor.execute(InsertOne, transaction=transactions[tx_id]); the
\* executor takes no manager lock.
TxExecute(tx_id) ==
    /\ HasKey(transactions, tx_id)
    /\ Tracked(DOMAIN transactions) < MaxChanges
    /\ \E r \in {_execute_insert(Tables(table), InsertOne, transactions[tx_id])} :
        /\ transactions' = [transactions EXCEPT ![tx_id] = r.transaction]
        /\ table' = r.tables[S_users]
        /\ outcome' = Outcome("execute", r.raised, 0, 1, NoStmt, <<>>)
    /\ UNCHANGED <<impl, lock, pc, issued, uuids, btVars, vsVars, dbVars, bothVars>>

TxNext ==
    \/ \E t \in Threads :
        \/ TxCall(t, "begin", <<>>)
        \/ \E tx_id \in (DOMAIN transactions) \cup {S_unknown} :
               TxCall(t, "commit", tx_id) \/ TxCall(t, "rollback", tx_id)
        \/ TxAcquire(t)
        \/ TxNewId(t)
        \/ TxStore(t)
        \/ TxCheck(t)
        \/ TxRaise(t)
        \/ TxApplyChanges(t)
        \/ TxSetCommitted(t)
        \/ TxSetRolledBack(t)
        \/ TxClearChanges(t)
        \/ TxClearLocks(t)
        \/ TxReturn(t)
    \/ \E tx_id \in DOMAIN transactions : TxExecute(tx_id)

SpecTxn == TxInit /\ [][TxNext]_vars

\* A statement of thread t inside the with block.
TxStep(t) ==
    \/ TxNewId(t)
    \/ TxStore(t)
    \/ TxCheck(t)
    \/ TxRaise(t)
    \/ TxApplyChanges(t)
    \/ TxSetCommitted(t)
    \/ TxSetRolledBack(t)
    \/ TxClearChanges(t)
    \/ TxClearLocks(t)
    \/ TxReturn(t)

\* Fair scheduling: a thread that can run its next statement runs it in the
\* end, and a thread that finds the lock free again and again takes it in the
\* end. Callers are free to stop calling.
TxFair == \A t \in Threads : WF_vars(TxStep(t)) /\ SF_vars(TxAcquire(t))

\* The calls on the manager alone: the executor takes no part in the lock.
TxCallsNext ==
    \E t \in Threads :
        \/ TxCall(t, "begin", <<>>)
        \/ \E tx_id \in (DOMAIN transactions) \cup {S_unknown} :
               TxCall(t, "commit", tx_id) \/ TxCall(t, "rollback", tx_id)
        \/ TxAcquire(t)
        \/ TxStep(t)

SpecTxnFair == TxInit /\ [][TxCallsNext]_vars /\ TxFair

\* ------------------------------------------------------------- claims on the managers
Terminal == {COMMITTED, ROLLED_BACK}

\* Thread t takes a step of its call.
Steps_(t) == pc'[t] # pc[t]

\* The call of thread t ends in a ValueError.
Raises(t) == Steps_(t) /\ pc[t].step = "check" /\ pc'[t].step = "raise"

\* C8: commit(id) and rollback(id) of transaction.py fail when id was never
\* issued and when the transaction is already Committed or RolledBack, and
\* otherwise go on; no step of a failing call (taking the lock, the tests,
\* leaving with the error) changes the state, lock set or change log of any
\* transaction.
C8_FailingCallChangesNothing ==
    [][\A t \in Threads :
          impl = UUID_MANAGER /\ pc[t].op \in {"commit", "rollback"} /\ Steps_(t)
          => /\ pc[t].step = "check"
                => (Raises(t) <=> \/ ~HasKey(transactions, pc[t].tx_id)
                                  \/ transactions[pc[t].tx_id].state \in Terminal)
             /\ pc[t].step \in {"acquire", "raise"} \/ Raises(t)
                => transactions' = transactions]_vars

\* A second commit of a committed transaction has failed, and the transaction
\* is still Committed.
C8_Witness ==
    /\ impl = UUID_MANAGER
    /\ \E t \in Threads :
        /\ pc[t].op = "commit" /\ pc[t].step = "raise"
        /\ HasKey(transactions, pc[t].tx_id)
        /\ transactions[pc[t].tx_id].state = COMMITTED

\* C9: once a transaction is Committed or RolledBack its state never changes
\* again, under either manager.
C9_TerminalStatesStay ==
    [][\A id \in DOMAIN transactions :
          transactions[id].state \in Terminal
          => HasKey(transactions', id) /\ transactions'[id].state = transactions[id].state]_vars

\* Under the counter-based manager a rollback has been tried on a committed
\* transaction that an insert was executed in, and it is still Committed.
C9_Witness ==
    /\ impl = COUNTER_MANAGER
    /\ \E t \in Threads :
        /\ pc[t].op = "rollback" /\ pc[t].step = "raise"
        /\ HasKey(transactions, pc[t].tx_id)
        /\ transactions[pc[t].tx_id].state = COMMITTED
        /\ transactions[pc[t].tx_id].changes # <<>>

\* C10: begin_transaction never returns an identifier it has returned before,
\* also when threads call it concurrently, and the transaction it stores is
\* new, Active, and has no locks and no changes, under either manager.
C10_FreshIdentifiers ==
    /\ [](\A i, j \in 1..Len(issued) : i # j => issued[i] # issued[j])
    /\ [][\A t \in Threads :
            pc[t].step = "store" /\ Steps_(t)
            => /\ ~HasKey(transactions, pc[t].tx_id)
               /\ transactions'[pc[t].tx_id] = Transaction(pc[t].tx_id)]_vars

\* Under the counter-based manager a thread has stored its transaction while
\* the other waits for the lock inside begin_transaction.
C10_Witness ==
    /\ impl = COUNTER_MANAGER
    /\ \E t, u \in Threads :
        /\ pc[t].op = "begin" /\ pc[t].step = "return"
        /\ pc[u].op = "begin" /\ pc[u].step = "acquire"
        /\ transactions[pc[t].tx_id] = Transaction(pc[t].tx_id)
        /\ pc[t].tx_id \notin {issued[k] : k \in 1..Len(issued)}

FirstId(manager) == IF manager = UUID_MANAGER THEN TransactionManager_new_id(0)
                    ELSE manager_new_id(<<>>)

\* A manager with one Active transaction, with or without an insert executed
\* in it, on which each thread has just called commit or rollback.
RaceInit ==
    /\ impl \in Managers
    /\ \E r \in {_execute_insert(Tables(NewTable), InsertOne,
                                 Transaction(FirstId(impl)))} :
          \/ /\ transactions = Put(<<>>, FirstId(impl), Transaction(FirstId(impl)))
             /\ table = NewTable
             /\ outcome = NoCall
          \/ /\ transactions = Put(<<>>, FirstId(impl), r.transaction)
             /\ table = r.tables[S_users]
             /\ outcome = Outcome("execute", r.raised, 0, 1, NoStmt, <<>>)
    /\ lock = Nobody
    /\ pc \in [Threads -> {Position(op, "acquire", FirstId(impl)) :
                              op \in {"commit", "rollback"}}]
    /\ issued = <<FirstId(impl)>>
    /\ uuids = IF impl = UUID_MANAGER THEN 1 ELSE 0
    /\ root = Node(<<>>, <<>>, <<>>, TRUE)
    /\ inserted = <<>>
    /\ preloaded = 0
    /\ VsUnused
    /\ DbUnused

RaceNext ==
    \E t \in Threads :
        \/ TxAcquire(t)
        \/ TxCheck(t)
        \/ TxRaise(t)
        \/ TxApplyChanges(t)
        \/ TxSetCommitted(t)
        \/ TxSetRolledBack(t)
        \/ TxClearChanges(t)
        \/ TxClearLocks(t)
        \/ TxReturn(t)

SpecRace == RaceInit /\ [][RaceNext]_vars

\* ------------------------------------------------------------- two open transactions
\* INSERT INTO users (id, f) VALUES (n + 1, 1), n being the number of rows.
InsertNext(tbl) ==
    InsertStatement(S_users, <<S_id, S_f>>, <<IntVal(Len(tbl.data) + 1), IntVal(1)>>)

\* The transaction argument of execute: a transaction of the manager, or None.
NoTx == <<>>
TxArg(tx_id) == IF tx_id = NoTx THEN None ELSE transactions[tx_id]

\* begin_transaction has returned twice and nothing else has happened.
LockInit ==
    /\ impl = UUID_MANAGER
    /\ transactions = [id \in {uuid4(0), uuid4(1)} |-> Transaction(id)]
    /\ lock = Nobody
    /\ pc = [t \in Threads |-> Idle]
    /\ issued = <<uuid4(0), uuid4(1)>>
    /\ uuids = 2
    /\ root = Node(<<>>, <<>>, <<>>, TRUE)
    /\ inserted = <<>>
    /\ preloaded = 0
    /\ table = NewTable
    /\ outcome = NoCall
    /\ VsUnused
    /\ DbUnused

\* execute of an insert that refuses a table in the lock set of another Active
\* transaction.
LkExecuteInsert_exclusive(stmt, tx_id) ==
    /\ Len(table.data) < MaxRows
    /\ tx_id # NoTx => Len(transactions[tx_id].changes) < MaxChanges
    /\ IF \E other \in DOMAIN transactions \ {tx_id} :
             transactions[other].state = ACTIVE /\ S_users \in transactions[other].locks
       THEN /\ outcome' = Outcome("execute", TRUE, 0, 1, stmt, <<>>)
            /\ UNCHANGED <<transactions, table>>
       ELSE \E r \in {_execute_insert(Tables(table), stmt, TxArg(tx_id))} :
            /\ transactions' = IF tx_id = NoTx THEN transactions
                               ELSE [transactions EXCEPT ![tx_id] = r.transaction]
            /\ table' = r.tables[S_users]
            /\ outcome' = Outcome("execute", r.raised, 0, 1, stmt, <<>>)
    /\ UNCHANGED <<impl, lock, pc, issued, uuids, btVars, vsVars, dbVars, bothVars>>

\* QueryExecutor.execute(stmt, transaction) for an InsertStatement.
LkExecuteInsert(stmt, tx_id) ==
    /\ Len(table.data) < MaxRows
    /\ tx_id # NoTx => Len(transactions[tx_id].changes) < MaxChanges
    /\ \E r \in {_execute_insert(Tables(table), stmt, TxArg(tx_id))} :
        /\ transactions' = IF tx_id = NoTx THEN transactions
                           ELSE [transactions EXCEPT ![tx_id] = r.transaction]
        /\ table' = r.tables[S_users]
        /\ outcome' = Outcome("execute", r.raised, 0, 1, stmt, <<>>)
    /\ UNCHANGED <<impl, lock, pc, issued, uuids, btVars, vsVars, dbVars, bothVars>>

\* QueryExecutor.execute(stmt, transaction) for a SelectStatement: the
\* transaction is looked at (executor.py lines 59-62) and nothing follows from it.
LkExecuteSelect(stmt, tx_id) ==
    /\ \E r \in {_execute_select(Tables(table), stmt)} :
        outcome' = Outcome("select", r.raised, 0, 0, stmt, r.rows)
    /\ UNCHANGED <<table, btVars, txVars, vsVars, dbVars, bothVars>>

LockNext ==
    \/ \E tx_id \in (DOMAIN transactions) \cup {NoTx} :
           \E stmt \in {InsertNext(table), InsertOne} : LkExecuteInsert(stmt, tx_id)
    \/ \E tx_id \in (DOMAIN transactions) \cup {NoTx} : LkExecuteSelect(SelectAll, tx_id)

SpecLocks == LockInit /\ [][LockNext]_vars

\* C22: an insert executed with a transaction or with none raises, and changes
\* the table, exactly as the same insert with no transaction and no lock held
\* by anyone, and a selection returns the stored rows, whichever Active
\* transactions hold the table in their lock sets.
C22_LocksNeverBlock ==
    /\ [][outcome'.op = "execute"
            => \E d \in {_execute_insert(Tables(table), outcome'.stmt, None)} :
                  /\ outcome'.raised = d.raised
                  /\ table' = d.tables[S_users]]_vars
    /\ [][outcome'.op = "select"
            => ~outcome'.raised /\ outcome'.rows = table.data]_vars

\* Both transactions are Active and hold users in their lock sets, each after
\* an insert of its own that stored a row, and an insert with no transaction
\* has stored a further row after them.
C22_Witness ==
    /\ outcome.op = "execute" /\ ~outcome.raised
    /\ outcome.stmt.values[1] = IntVal(Len(table.data))
    /\ \A id \in DOMAIN transactions :
          /\ transactions[id].state = ACTIVE
          /\ transactions[id].locks = {S_users}
          /\ Len(transactions[id].changes) = 1
          /\ transactions[id].changes[1].data[S_id].n < Len(table.data)
          /\ \E r \in 1..Len(table.data) :
                 table.data[r][S_id] = transactions[id].changes[1].data[S_id]
    /\ transactions[uuid4(0)].changes # transactions[uuid4(1)].changes
\* Thread t is in commit or rollback, past the two tests.
Succeeding(t) ==
    /\ pc[t].op \in {"commit", "rollback"}
    /\ pc[t].step \notin {"acquire", "check", "raise", "done"}

\* The state a successful call leaves.
FinalState(op) == IF op = "commit" THEN COMMITTED ELSE ROLLED_BACK

\* What one statement of commit or rollback does to the transaction.
Effect(step, tx) ==
    CASE step = "set_committed" -> [tx EXCEPT !.state = COMMITTED]
      [] step = "set_rolled_back" -> [tx EXCEPT !.state = ROLLED_BACK]
      [] step = "clear_changes" -> [tx EXCEPT !.changes = <<>>]
      [] step = "clear_locks" -> [tx EXCEPT !.locks = {}]
      [] OTHER -> tx

\* The statements a call runs after the tests, in order, up to its return.
SuccessPath(op) ==
    IF op = "commit" THEN <<"check", "set_committed", "clear_locks", "return", "done">>
    ELSE <<"check", "set_rolled_back", "clear_changes", "clear_locks", "return", "done">>

\* C11: in transaction.py a commit(id) that passes the tests sets the state to
\* Committed, then empties the lock set, then returns, and never writes the
\* change log; a rollback(id) sets the state to RolledBack, empties the change
\* log, empties the lock set and returns; every statement of either writes
\* the one field named and no other transaction.
C11_CommitRollbackEffect ==
    [][\A t \in Threads :
          /\ impl = UUID_MANAGER
          /\ pc[t].op \in {"commit", "rollback"}
          /\ Steps_(t) /\ ~Raises(t)
          /\ pc[t].step \notin {"acquire", "raise"}
          => /\ pc[t].step = "check" => transactions[pc[t].tx_id].state = ACTIVE
             /\ \E k \in 1..(Len(SuccessPath(pc[t].op)) - 1) :
                   /\ SuccessPath(pc[t].op)[k] = pc[t].step
                   /\ SuccessPath(pc[t].op)[k + 1] = pc'[t].step
             /\ transactions' = [transactions EXCEPT ![pc[t].tx_id] =
                                    Effect(pc[t].step, transactions[pc[t].tx_id])]
             /\ pc[t].op = "commit"
                => transactions'[pc[t].tx_id].changes = transactions[pc[t].tx_id].changes
             /\ pc[t].step = "return"
                => transactions[pc[t].tx_id].state = FinalState(pc[t].op)]_vars

\* A rollback is about to return: its transaction is RolledBack with no locks
\* and no changes, an insert it tracked is stored in the table, and the other
\* transaction, Active, holds a lock and a change.
C11_Witness ==
    /\ impl = UUID_MANAGER
    /\ Len(table.data) = 1
    /\ \E t \in Threads, other \in DOMAIN transactions :
        /\ pc[t].op = "rollback" /\ pc[t].step = "return"
        /\ other # pc[t].tx_id
        /\ transactions[pc[t].tx_id] =
               [Transaction(pc[t].tx_id) EXCEPT !.state = ROLLED_BACK]
        /\ transactions[other].state = ACTIVE
        /\ transactions[other].locks = {S_users}
        /\ transactions[other].changes # <<>>

\* C12: of two threads that call commit or rollback on the same Active
\* transaction at the same time, the first to run the tests passes them while
\* the other waits for the lock, and it leaves the state of its call; the
\* other runs the tests after the first has returned and fails with the
\* not-active error, changing nothing; the two are never both past the tests.
C12_ExactlyOneSucceeds ==
    /\ [](\A t, u \in Threads : t # u => ~(Succeeding(t) /\ Succeeding(u)))
    /\ [](\A id \in DOMAIN transactions :
             (\A t \in Threads : pc[t].step = "done")
             => transactions[id].state \in Terminal)
    /\ [][\A t, u \in Threads :
            t # u /\ Steps_(t)
            => /\ pc[t].step = "check"
                  => /\ pc[u].step \in {"acquire", "done"}
                     /\ pc[u].step = "acquire" => ~Raises(t)
                     /\ pc[u].step = "done"
                        => /\ Raises(t)
                           /\ HasKey(transactions, pc[t].tx_id)
                           /\ transactions[pc[t].tx_id].state # ACTIVE
               /\ pc[t].step = "return"
                  => /\ pc[u].step = "acquire"
                     /\ transactions'[pc[t].tx_id].state = FinalState(pc[t].op)
               /\ pc[u].step = "done" => transactions' = transactions]_vars

\* A commit has returned and the rollback of the other thread, which waited
\* for the lock, has failed: the transaction is Committed.
C12_Witness ==
    /\ \E t, u \in Threads :
        /\ pc[t].step = "done"
        /\ pc[u].op = "rollback" /\ pc[u].step = "raise"
        /\ transactions[pc[u].tx_id].state = COMMITTED
        /\ transactions[pc[u].tx_id].changes # <<>>

\* The executor has run an insert in transaction id.
Executes(id) ==
    /\ HasKey(transactions, id)
    /\ Len(transactions'[id].changes) = Len(transactions[id].changes) + 1

\* C19: when execute of an insert with an Active transaction returns without
\* error, the table is in the transaction's lock set, the insert is the last
\* entry of its change log, the row is the last row of the table and a
\* selection on the table returns it, while the transaction is still Active.
C19_InsertTakesEffectAtOnce ==
    [][\A id \in DOMAIN transactions :
          Executes(id) /\ transactions[id].state = ACTIVE /\ ~outcome'.raised
          => /\ S_users \in transactions'[id].locks
             /\ transactions'[id].changes[Len(transactions'[id].changes)] =
                    [type |-> "INSERT", table |-> S_users,
                     data |-> Row(IntVal(1), IntVal(1))]
             /\ table'.data = Append(table.data, Row(IntVal(1), IntVal(1)))
             /\ \E r \in {_execute_select(Tables(table'), SelectAll)} :
                   /\ ~r.raised
                   /\ Row(IntVal(1), IntVal(1)) \in RowSet(r.rows)
             /\ transactions'[id].state = ACTIVE]_vars

\* An insert has been executed in an Active transaction while a thread is in
\* begin_transaction: the row is stored and the transaction is still Active.
C19_Witness ==
    /\ outcome.op = "execute" /\ ~outcome.raised
    /\ Len(table.data) = 1
    /\ \E id \in DOMAIN transactions :
        /\ transactions[id].state = ACTIVE
        /\ transactions[id].locks = {S_users}
        /\ Len(transactions[id].changes) = 1
    /\ \E t \in Threads : pc[t].op = "begin" /\ pc[t].step = "store"

\* C20: no statement of commit or rollback, under either manager, changes the
\* rows, the indexes or the unique map of the table, and a row once stored
\* stays stored and selectable, also after the transaction it was inserted in
\* is rolled back.
C20_CommitRollbackLeaveRows ==
    /\ [][(\E t \in Threads : Steps_(t) /\ pc[t].op \in {"commit", "rollback"})
            => table' = table]_vars
    /\ [][\A k \in 1..Len(table.data) :
            Len(table'.data) >= k /\ table'.data[k] = table.data[k]]_vars
    /\ [][\A t \in Threads :
            Steps_(t) /\ pc[t].op \in {"commit", "rollback"} /\ pc[t].step = "return"
            => \E r \in {_execute_select(Tables(table'), SelectAll)} :
                  ~r.raised /\ RowSet(table.data) \subseteq RowSet(r.rows)]_vars

\* The transaction an insert was executed in has been rolled back, the call
\* has returned, and the row is still in the table.
C20_Witness ==
    /\ impl = UUID_MANAGER
    /\ outcome.op = "execute" /\ ~outcome.raised
    /\ Len(table.data) = 1
    /\ \A t \in Threads : pc[t].step = "done"
    /\ \A id \in DOMAIN transactions : transactions[id].changes = <<>>
    /\ \E id \in DOMAIN transactions :
          transactions[id].state = ROLLED_BACK /\ transactions[id].locks = {}

\* C27: an execute of an insert that fails changes no row, index or unique map
\* and leaves the lock set and the change log of every Active transaction as
\* they were.
C27_FailedInsertChangesNothing ==
    [][pc' = pc /\ outcome'.op = "execute" /\ outcome'.raised
         => /\ table' = table
            /\ \A id \in DOMAIN transactions :
                  transactions[id].state = ACTIVE => transactions'[id] = transactions[id]]_vars

\* C28: under transaction.py, whenever no commit or rollback is at work on it,
\* a Committed or RolledBack transaction has an empty lock set, and a
\* RolledBack transaction has an empty change log.
C28_EndedTransactionsHoldNothing ==
    \A id \in DOMAIN transactions :
        /\ impl = UUID_MANAGER
        /\ transactions[id].state \in Terminal
        /\ \A t \in Threads : pc[t].tx_id = id => pc[t].step \in {"done", "acquire", "raise"}
        => /\ transactions[id].locks = {}
           /\ transactions[id].state = ROLLED_BACK => transactions[id].changes = <<>>

\* ------------------------------------------------------------- the two managers side by side
\* What one statement of a method does to the transactions dict.
StepEffect(step, txs, tx_id) ==
    CASE step = "store" -> Put(txs, tx_id, Transaction(tx_id))
      [] step = "set_committed" -> [txs EXCEPT ![tx_id].state = COMMITTED]
      [] step = "set_rolled_back" -> [txs EXCEPT ![tx_id].state = ROLLED_BACK]
      [] step = "clear_changes" -> [txs EXCEPT ![tx_id].changes = <<>>]
      [] step = "clear_locks" -> [txs EXCEPT ![tx_id].locks = {}]
      [] OTHER -> txs

RECURSIVE RunSteps(_, _, _, _)
\* The statements of a method from the k-th on, run by one caller with no
\* other call in between.
RunSteps(steps, k, txs, tx_id) ==
    IF k > Len(steps) THEN txs
    ELSE RunSteps(steps, k + 1, StepEffect(steps[k], txs, tx_id), tx_id)

\* A manager object: its transactions, the identifiers it has returned in
\* order of issue, the uuids drawn for it, and whether its last call raised.
ManagerObject(txs, ids, drawn, raised) ==
    [transactions |-> txs, issued |-> ids, uuids |-> drawn, raised |-> raised]

\* begin_transaction(), commit(tx_id) or rollback(tx_id) of one manager, from
\* call to return or raise.
Call(manager, m, op, tx_id) ==
    LET id == IF op # "begin" THEN tx_id
              ELSE IF manager = UUID_MANAGER THEN TransactionManager_new_id(m.uuids)
              ELSE manager_new_id(m.transactions)
        verdict == IF op = "begin" THEN "ok"
                   ELSE IF manager = UUID_MANAGER
                   THEN TransactionManager_check(m.transactions, tx_id)
                   ELSE manager_check(m.transactions, tx_id)
    IN  IF verdict # "ok" THEN ManagerObject(m.transactions, m.issued, m.uuids, TRUE)
        ELSE ManagerObject(RunSteps(Steps(manager, op), 1, m.transactions, id),
                           IF op = "begin" THEN Append(m.issued, id) ELSE m.issued,
                           IF op = "begin" /\ manager = UUID_MANAGER
                           THEN m.uuids + 1 ELSE m.uuids,
                           FALSE)

\* The k-th identifier a manager has issued; an identifier it has not issued
\* for k = 0.
IdAt(m, k) == IF k = 0 THEN S_unknown ELSE m.issued[k]

PairInit ==
    /\ both = [manager \in Managers |-> ManagerObject(<<>>, <<>>, 0, FALSE)]
    /\ _query_cache = <<>>
    /\ root = Node(<<>>, <<>>, <<>>, TRUE)
    /\ inserted = <<>>
    /\ preloaded = 0
    /\ table = NewTable
    /\ outcome = NoCall
    /\ TxUnused
    /\ VsUnused

\* begin_transaction() on both managers.
PairBegin ==
    /\ Len(both[UUID_MANAGER].issued) < MaxTx
    /\ both' = [manager \in Managers |-> Call(manager, both[manager], "begin", <<>>)]
    /\ outcome' = Outcome("begin", FALSE, 0, 0, NoStmt, <<>>)
    /\ UNCHANGED <<table, btVars, txVars, vsVars, dbVars>>

\* commit or rollback on both managers, of the transaction each issued k-th.
PairEnd(op, k) ==
    /\ both' = [manager \in Managers |->
                   Call(manager, both[manager], op, IdAt(both[manager], k))]
    /\ outcome' = Outcome(op, both'[UUID_MANAGER].raised, k, 0, NoStmt, <<>>)
    /\ UNCHANGED <<table, btVars, txVars, vsVars, dbVars>>

\* QueryExecutor.execute(InsertOne, transaction) with the k-th transaction of
\* each manager. Each manager serves a database of its own; the rows are not
\* kept.
PairExecute(k) ==
    /\ Len(both[UUID_MANAGER].transactions[IdAt(both[UUID_MANAGER], k)].changes)
           < MaxChanges
    /\ both' = [manager \in Managers |->
                   [both[manager] EXCEPT
                       !.transactions[IdAt(both[manager], k)] =
                           _execute_insert(Tables(table), InsertOne, @).transaction,
                       !.raised = FALSE]]
    /\ outcome' = Outcome("execute", FALSE, k, 1, NoStmt, <<>>)
    /\ UNCHANGED <<table, btVars, txVars, vsVars, dbVars>>

PairNext ==
    \/ PairBegin
    \/ \E op \in {"commit", "rollback"}, k \in 0..Len(both[UUID_MANAGER].issued) :
           PairEnd(op, k)
    \/ \E k \in 1..Len(both[UUID_MANAGER].issued) : PairExecute(k)

SpecPair == PairInit /\ [][PairNext]_vars

\* C36: after every call made on both managers, the call has raised in both
\* or in neither, both have issued as many identifiers and hold no other
\* transaction, and the transactions they issued k-th are in the same state
\* and hold the same changes.
C36_ManagersAgree ==
    LET a == both[UUID_MANAGER]
        b == both[COUNTER_MANAGER]
    IN  /\ a.raised = b.raised
        /\ Len(a.issued) = Len(b.issued)
        /\ DOMAIN a.transactions = {a.issued[k] : k \in 1..Len(a.issued)}
        /\ DOMAIN b.transactions = {b.issued[k] : k \in 1..Len(b.issued)}
        /\ \A k \in 1..Len(a.issued) :
               /\ k <= Len(b.issued)
               /\ a.transactions[a.issued[k]].state = b.transactions[b.issued[k]].state
               /\ a.transactions[a.issued[k]].changes
                      = b.transactions[b.issued[k]].changes

\* A commit of the first transaction has raised in both managers because the
\* transaction was committed already, with its change kept; the second
\* transaction was rolled back after an insert and holds no change.
C36_Witness ==
    /\ outcome.op = "commit" /\ outcome.at = 1
    /\ both[UUID_MANAGER].raised /\ both[COUNTER_MANAGER].raised
    /\ Len(both[COUNTER_MANAGER].issued) = 2
    /\ both[COUNTER_MANAGER].transactions[NatToStr(1)].state = COMMITTED
    /\ Len(both[COUNTER_MANAGER].transactions[NatToStr(1)].changes) = 1
    /\ both[UUID_MANAGER].transactions[uuid4(1)].state = ROLLED_BACK
    /\ both[UUID_MANAGER].transactions[uuid4(1)].locks = {}
    /\ both[COUNTER_MANAGER].transactions[NatToStr(2)].locks = {S_users}

\* ------------------------------------------------------------- the database
\* The texts the callers send.
T_select == K_SELECT \o <<" ", "*", " ">> \o K_FROM \o <<" ">> \o S_users
T_select_lower == Lower(T_select)
T_insert(n) ==
    K_INSERT \o <<" ">> \o K_INTO \o <<" ">> \o S_users
    \o <<" ", "(", "i", "d", ",", " ", "f", ")", " ">> \o K_VALUES \o <<" ", "(">>
    \o IntToStr(n) \o <<",", " ", "1", ")">>
T_delete == <<"D", "E", "L", "E", "T", "E", " ">> \o K_FROM \o <<" ">> \o S_users
SelectTexts == {T_select, T_select_lower}
\* An insert under a new id, one under the id 1, and a statement execute refuses.
Texts(tbl) == SelectTexts \cup {T_insert(Len(tbl.data) + 1), T_insert(1), T_delete}
\* No transaction id, the empty str, an open transaction, an unknown one.
TxIds == {None, StrVal(<<>>), StrVal(uuid4(0)), StrVal(S_unknown)}

\* db.execute(sql, tx_id)
DbExecute(sql, tx_id) ==
    /\ StartsWith(sql, K_INSERT) =>
          /\ Len(table.data) < MaxRows
          /\ tx_id # None /\ HasKey(transactions, tx_id.s)
                => Len(transactions[tx_id.s].changes) < MaxChanges
    /\ \E r \in {execute(Tables(table), transactions, _query_cache, sql, tx_id)} :
        /\ table' = r.tables[S_users]
        /\ transactions' = r.transactions
        /\ _query_cache' = r._query_cache
        /\ outcome' = Outcome("db_execute", r.raised, 0, 0,
                              [sql |-> sql, tx_id |-> tx_id], r.result)
    /\ UNCHANGED <<impl, lock, pc, issued, uuids, btVars, vsVars, bothVars>>

\* db.clear_cache()
DbClearCache ==
    /\ _query_cache' = <<>>
    /\ outcome' = Outcome("clear_cache", FALSE, 0, 0, NoStmt, <<>>)
    /\ UNCHANGED <<table, txVars, btVars, vsVars, bothVars>>

\* The database holds the table users, and two transactions are open.
DbNext ==
    \/ \E sql \in Texts(table), tx_id \in TxIds : DbExecute(sql, tx_id)
    \/ DbClearCache

SpecDB == LockInit /\ [][DbNext]_vars

\* C21: a SELECT that PyFlareDB.execute answers without raising, with or
\* without a transaction id and whether or not the same text was executed
\* before, returns what the executor computes from the rows the table holds
\* at that moment, so every row inserted before it is in the answer.
C21_InsertsVisibleToSelects ==
    outcome.op = "db_execute" /\ ~outcome.raised /\ outcome.stmt.sql \in SelectTexts
        => outcome.rows
               = _execute_select(Tables(table),
                                 parse_select(outcome.stmt.sql).statement).rows

\* ------------------------------------------------------------- the version store
\* The str "v", "A", "B".
S_v == <<"v">>
S_A == <<"A">>
S_B == <<"B">>

\* Row identifiers.
RowIds == {StrVal(S_A), StrVal(S_B)}

\* The data snapshot {"id": idv, "v": v}, without "id" when idv is Absent.
Data(idv, v) ==
    [c \in (IF idv = Absent THEN {} ELSE {S_id}) \cup {S_v}
        |-> IF c = S_id THEN idv ELSE IntVal(v)]

\* The versions callers build: inserts carry v = 1 and updates v = 2, with any
\* "id" in the snapshot or none; a delete carries an empty snapshot.
VersionSet ==
    {Version(t, "INSERT", S_users, r, Data(idv, 1)) :
        t \in 1..MaxTime, r \in RowIds, idv \in RowIds \cup {Absent}}
    \cup {Version(t, "UPDATE", S_users, r, Data(idv, 2)) :
        t \in 1..MaxTime, r \in RowIds, idv \in RowIds \cup {Absent}}
    \cup {Version(t, "DELETE", S_users, r, <<>>) : t \in 1..MaxTime, r \in RowIds}

\* The versions passed to add_version.
AddedVersions ==
    {v \in VersionSet : v.row_id = StrVal(S_A) /\ v.timestamp = MaxTime
                        /\ (HasKey(v.data, S_id) => v.data[S_id] = v.row_id)}

Logs == UNION {[1..n -> VersionSet] : n \in 0..MaxLog}

\* add_version cannot extend the log (see add_version), so the stores looked at
\* are those whose list `versions`, an attribute any caller can reach, holds
\* any log.
VsInit ==
    /\ versions \in Logs
    /\ current_version = VersionStore.current_version
    /\ returned = NoReturn
    /\ root = Node(<<>>, <<>>, <<>>, TRUE)
    /\ inserted = <<>>
    /\ preloaded = 0
    /\ table = NewTable
    /\ outcome = NoCall
    /\ TxUnused
    /\ DbUnused

VsAddVersion(version) ==
    /\ \E r \in {add_version([versions |-> versions,
                             current_version |-> current_version], version)} :
        /\ versions' = r.store.versions
        /\ current_version' = r.store.current_version
        /\ returned' = Returned("add_version", version, 0, r.raised, <<>>)
    /\ UNCHANGED <<btVars, tblVars, txVars, dbVars, bothVars>>

VsGetStateAt(timestamp) ==
    /\ \E r \in {get_state_at([versions |-> versions,
                              current_version |-> current_version], timestamp)} :
        returned' = Returned("get_state_at", NoVersion, timestamp, r.raised,
                             IF r.raised THEN <<>> ELSE r.state)
    /\ UNCHANGED <<versions, current_version, btVars, tblVars, txVars, dbVars, bothVars>>

VsNext ==
    \/ \E version \in AddedVersions : VsAddVersion(version)
    \/ \E timestamp \in 0..MaxTime : VsGetStateAt(timestamp)

SpecVersion == VsInit /\ [][VsNext]_vars

\* ------------------------------------------------------------- claims on the version store
\* C15: add_version(v) succeeds for every version v, appends v as the last
\* element of the log and sets current_version, which from then on names the
\* entry appended last.
C15_AddVersionAppends ==
    [][returned'.op = "add_version"
          => /\ ~returned'.raised
             /\ versions' = Append(versions, returned'.version)
             /\ current_version' # None]_vars

RECURSIVE Contributed(_, _)
\* The entries the claim's replay holds after the versions vs, each with the
\* row identifier of the version that contributed it: an Insert appends its
\* entry, a Delete with identifier r removes the entries of identifier r, an
\* Update with identifier r puts its snapshot in place of them.
Contributed(vs, entries) ==
    LET After(v) ==
            CASE v.operation = "INSERT" ->
                     Append(entries, [table_name |-> v.table_name,
                                      row_id |-> v.row_id, data |-> v.data])
              [] v.operation = "DELETE" ->
                     SelectSeq(entries, LAMBDA e : ~(e.table_name = v.table_name
                                                     /\ e.row_id = v.row_id))
              [] OTHER ->
                     [k \in 1..Len(entries) |->
                         IF entries[k].table_name = v.table_name
                            /\ entries[k].row_id = v.row_id
                         THEN [entries[k] EXCEPT !.data = v.data]
                         ELSE entries[k]]
    IN  IF vs = <<>> THEN entries
        ELSE Contributed(Tail(vs), After(Head(vs)))

\* The rows of the entries of one table, in order.
RowsOfTable(entries, table_name) ==
    LET Mine == SelectSeq(entries, LAMBDA e : e.table_name = table_name)
    IN  [k \in 1..Len(Mine) |-> Mine[k].data]

====
